---------------------------- MODULE Spec2Model ----------------------------
(***************************************************************************)
(* Model of the sysbreak credit bridge contract                            *)
(* (contracts/sysbreak-credit-bridge): the withdrawal authorization        *)
(* pipeline, the dual-window rate limiter, the treasury guard and the      *)
(* admin operations, as state machine over the contract's storage items,   *)
(* the bank balance of the contract and the block time.                    *)
(*                                                                         *)
(* Conventions                                                             *)
(*  - Option<T> is a sequence of length 0 (None) or 1 (Some(x)).           *)
(*  - a cw-storage Map is a function whose DOMAIN is the set of saved keys.*)
(*  - a string that the code splits or joins at ':' is the sequence of its *)
(*    ':'-free segments ("17:a:b" is <<"17","a","b">>), so that joining    *)
(*    with ':' is concatenation and splitn(2, ':') is Head / Tail.         *)
(*  - Timestamp is counted in whole seconds.                               *)
(*  - a handler is an operator from (store, env, info, msg) to a result    *)
(*    [err, st, msgs]: st is the store as the handler left it when it      *)
(*    returned, msgs the bank transfers of its Response.                   *)
(***************************************************************************)
EXTENDS Integers, Sequences, FiniteSets, TLC

VARIABLES
    config,             \* CONFIG
    pending_oracle,     \* PENDING_ORACLE (Option)
    pending_owner,      \* PENDING_OWNER (Option)
    used_nonces,        \* USED_NONCES
    player_wd,          \* PLAYER_WITHDRAWALS
    player_last_wd,     \* PLAYER_LAST_WITHDRAWAL
    global_wd,          \* GLOBAL_WITHDRAWALS, the legacy vector (Option)
    peak_balance,       \* PEAK_BALANCE
    global_wd_map,      \* GLOBAL_WITHDRAWAL_RECORDS
    global_wd_counter,  \* GLOBAL_WD_COUNTER (Option)
    global_wd_oldest,   \* GLOBAL_WD_OLDEST (Option)
    contract_info,      \* cw2 CONTRACT: contract name and version (Option)
    balance,            \* bank balance of the contract in config.denom
    now,                \* env.block.time
    last,               \* outcome of the latest invocation: [op, err, msgs]
    history,            \* every successful withdrawal: [player, amount_credits, timestamp, nonce]
    accepted,           \* every Withdraw request that succeeded
    cap_updates,        \* the caps that UpdateLimits has overridden so far
    budget,             \* what the behaviour may still do: [ticks, withdrawals, ops]
    answer,             \* the latest query and its response
    effects             \* storage writes and bank messages of the latest Withdraw, in order

vars == << config, pending_oracle, pending_owner, used_nonces, player_wd,
           player_last_wd, global_wd, peak_balance, global_wd_map,
           global_wd_counter, global_wd_oldest, contract_info, balance, now,
           last, history,
           accepted, cap_updates, budget, answer, effects >>

----------------------------------------------------------------------------
(* Bounds of the model *)

MaxTicks == 2          \* Spec: block-time advances per behaviour
MaxWithdrawals == 3    \* Spec: successful withdrawals per behaviour
TreasuryOps == 2       \* SpecTreasury: successful treasury operations per behaviour
TreasuryWithdrawals == 1   \* SpecTreasury: successful withdrawals per behaviour
OpsTicks == 1          \* SpecOps: block-time advances per behaviour
OpsAdmin == 2          \* SpecOps: successful operations other than Withdraw
OpsWithdrawals == 1    \* SpecOps: successful withdrawals per behaviour
LimitsTicks == 2       \* SpecLimits: block-time advances per behaviour
LimitsWithdrawals == 2 \* SpecLimits: successful withdrawals per behaviour
LimitsOps == 1         \* SpecLimits: successful UpdateLimits per behaviour
MaxBalance == 6        \* deposits and funding stop above this balance
LargeTicks == 1        \* SpecLarge: block-time advances per behaviour
LargeWithdrawals == 2  \* SpecLarge: successful withdrawals per behaviour
InfoTicks == 2         \* SpecInfo: block-time advances per behaviour
InfoWithdrawals == 2   \* SpecInfo: successful withdrawals per behaviour
InfoOps == 1           \* SpecInfo: limit updates and queries per behaviour
PruneStale == 12       \* SpecPrune: expired records in the legacy vector
PruneFresh == 1        \* SpecPrune: records in the window in the legacy vector
PruneTicks == 1        \* SpecPrune: block-time advances per behaviour
PruneWithdrawals == 3  \* SpecPrune: successful withdrawals per behaviour
PruneOps == 1          \* SpecPrune: migrations per behaviour
MigrateOps == 2        \* SpecMigrate: migrations per behaviour
MigrateTicks == 1      \* SpecMigrate: block-time advances per behaviour
MigrateWithdrawals == 1 \* SpecMigrate: successful withdrawals per behaviour
MaxLegacy == 2         \* SpecMigrate: records in the legacy global vector
ConvertQueries == 2    \* SpecConvert: queries per behaviour
U128_BITS == 29        \* Uint128 is modelled with this many bits

(* Program constants *)

WINDOW_SECONDS == 86400
NONCE_EXPIRY_WINDOW == 604800
BPS_DENOMINATOR == 10000
MAX_FEE_BPS == 10000
PRUNE_BATCH == 10
GENESIS_TIME == 1571797419

Uint128Max == 2^U128_BITS - 1

----------------------------------------------------------------------------
(* Option and Map *)

None == << >>
Some(x) == << x >>
IsSome(o) == Len(o) = 1
IsNone(o) == Len(o) = 0
Unwrap(o) == o[1]
unwrap_or(o, default) == IF IsSome(o) THEN o[1] ELSE default

EmptyMap == << >>
may_load(m, k) == IF k \in DOMAIN m THEN Some(m[k]) ELSE None
save(m, k, v) == [x \in (DOMAIN m) \cup {k} |-> IF x = k THEN v ELSE m[x]]
remove(m, k) == [x \in (DOMAIN m) \ {k} |-> m[x]]

(* Uint128 arithmetic of cosmwasm_std *)

checked_add(a, b) == IF a + b > Uint128Max THEN None ELSE Some(a + b)
checked_sub(a, b) == IF a < b THEN None ELSE Some(a - b)
checked_mul(a, b) == IF b # 0 /\ a > Uint128Max \div b THEN None ELSE Some(a * b)
checked_div(a, b) == IF b = 0 THEN None ELSE Some(a \div b)
saturating_add(a, b) == IF a + b > Uint128Max THEN Uint128Max ELSE a + b
saturating_sub(a, b) == IF a < b THEN 0 ELSE a - b

(* Results of a handler *)

Ok(st, msgs) == [err |-> "ok", st |-> st, msgs |-> msgs]
Err(e, st) == [err |-> e, st |-> st, msgs |-> << >>]
BankSend(to, amount) == [to_address |-> to, amount |-> amount]

----------------------------------------------------------------------------
(* helpers.rs *)

(* A faulty variant: the sender is compared with the owner set at instantiation. *)
assert_owner_at_instantiation(st, sender) ==
    IF sender # "owner" THEN "Unauthorized" ELSE "ok"

assert_owner(st, sender) ==
    IF sender # st.config.owner THEN "Unauthorized" ELSE "ok"

(* A faulty variant: the paused flag is not consulted. *)
assert_not_paused_never(st) == "ok"

assert_not_paused(st) ==
    IF st.config.paused THEN "Paused" ELSE "ok"

(* a * b modulo 2^U128_BITS *)
RECURSIVE wrapping_mul(_, _)
wrapping_mul(a, b) ==
    IF b = 0 THEN 0 ELSE (wrapping_mul(a, b - 1) + a) % (Uint128Max + 1)

(* A faulty variant: the product wraps instead of failing. *)
credits_to_tokens_wrapping(credits, cfg) ==
    checked_div(wrapping_mul(credits, cfg.rate_tokens), cfg.rate_credits)

credits_to_tokens(credits, cfg) ==
    LET m == checked_mul(credits, cfg.rate_tokens)
    IN  IF IsNone(m) THEN None ELSE checked_div(Unwrap(m), cfg.rate_credits)

(* A faulty variant: the quotient is rounded up. *)
tokens_to_credits_rounding_up(tokens, cfg) ==
    LET m == checked_mul(tokens, cfg.rate_credits)
    IN  IF IsNone(m) THEN None
        ELSE checked_div(Unwrap(m) + cfg.rate_tokens - 1, cfg.rate_tokens)

tokens_to_credits(tokens, cfg) ==
    LET m == checked_mul(tokens, cfg.rate_credits)
    IN  IF IsNone(m) THEN None ELSE checked_div(Unwrap(m), cfg.rate_tokens)

(* A faulty variant: the fee is rounded up. *)
calculate_fee_rounding_up(amount, fee_bps) ==
    LET m == checked_mul(amount, fee_bps)
    IN  IF IsNone(m) THEN None
        ELSE checked_div(Unwrap(m) + BPS_DENOMINATOR - 1, BPS_DENOMINATOR)

calculate_fee(amount, fee_bps) ==
    LET m == checked_mul(amount, fee_bps)
    IN  IF IsNone(m) THEN None ELSE checked_div(Unwrap(m), BPS_DENOMINATOR)

(* SHA-256 is taken to be collision free: the digest stands for its preimage. *)
Sha256(bytes) == << "sha256", bytes >>

(* A faulty variant: the player's address is left out of the signed payload. *)
build_withdrawal_message_no_player(chain_id, contract_addr, nonce, player, credit_amount, token_amount) ==
    Sha256(<< "withdraw", chain_id, contract_addr >> \o nonce
           \o << ToString(credit_amount), ToString(token_amount) >>)

(* format!("withdraw:{}:{}:{}:{}:{}:{}", ...) and its digest *)
build_withdrawal_message(chain_id, contract_addr, nonce, player, credit_amount, token_amount) ==
    Sha256(<< "withdraw", chain_id, contract_addr >> \o nonce
           \o << player, ToString(credit_amount), ToString(token_amount) >>)

(* Timestamp::minus_seconds panics when the result would be negative. *)
can_minus_seconds(t, seconds) == t >= seconds

(* A Timestamp holds nanoseconds in 64 bits, which is 18446744073 whole     *)
(* seconds; the largest integer of the model stands for that number.         *)
TimestampMaxSeconds == (2^30 - 1) + 2^30

(* Timestamp::plus_seconds panics when the result exceeds the range of      *)
(* Timestamp: None is the panic.                                             *)
plus_seconds(t, seconds) ==
    IF seconds > TimestampMaxSeconds - t THEN None ELSE Some(t + seconds)

RECURSIVE sum_rolling_window_from(_, _, _, _, _)
sum_rolling_window_from(records, i, cutoff, active, total) ==
    IF i > Len(records) THEN << active, total >>
    ELSE IF records[i].timestamp >= cutoff
         THEN sum_rolling_window_from(records, i + 1, cutoff,
                  Append(active, records[i]),
                  saturating_add(total, records[i].amount_credits))
         ELSE sum_rolling_window_from(records, i + 1, cutoff, active, total)

(* A faulty variant: records are counted however old they are. *)
sum_rolling_window_counting_all(records, t, window_seconds) ==
    sum_rolling_window_from(records, 1, 0, << >>, 0)

(* A faulty variant: a record at the cutoff itself is outside the window. *)
sum_rolling_window_exclusive(records, t, window_seconds) ==
    sum_rolling_window_from(records, 1, t - window_seconds + 1, << >>, 0)

(* Returns <<active records, total in window>>. *)
sum_rolling_window(records, t, window_seconds) ==
    sum_rolling_window_from(records, 1, t - window_seconds, << >>, 0)

(* A faulty variant: the cooldown bound is inclusive. *)
cooldown_active_inclusive(last_wd, t, cfg) ==
    t <= last_wd + cfg.cooldown_seconds

cooldown_active(last_wd, t, cfg) ==
    t < last_wd + cfg.cooldown_seconds

(* A faulty variant: the request itself is not added to the usage. *)
over_limit_ignoring_request(used, credit_amount, limit) ==
    used > limit

over_limit(used, credit_amount, limit) ==
    Unwrap(checked_add(used, credit_amount)) > limit

(* Returns "ok" or the name of the error. *)
check_player_limits(st, env, player, credit_amount, cfg) ==
    LET last_wd == may_load(st.player_last_wd, player)
        records == IF player \in DOMAIN st.player_wd
                   THEN st.player_wd[player] ELSE << >>
        used == sum_rolling_window(records, env.time, WINDOW_SECONDS)[2]
    IN  IF IsSome(last_wd)
           /\ IsNone(plus_seconds(Unwrap(last_wd), cfg.cooldown_seconds))
        THEN "Panic"
        ELSE IF IsSome(last_wd) /\ cooldown_active(Unwrap(last_wd), env.time, cfg)
        THEN "CooldownActive"
        ELSE IF ~can_minus_seconds(env.time, WINDOW_SECONDS) THEN "Panic"
        ELSE IF IsNone(checked_add(used, credit_amount)) THEN "Overflow"
        ELSE IF over_limit(used, credit_amount, cfg.player_daily_limit)
             THEN "PlayerDailyLimitExceeded"
        ELSE "ok"

RECURSIVE global_window_sum_from(_, _, _, _, _)
global_window_sum_from(records, idx, counter, cutoff, used) ==
    IF idx > counter THEN used
    ELSE LET record == may_load(records, idx)
         IN  global_window_sum_from(records, idx + 1, counter, cutoff,
                 IF IsSome(record) /\ Unwrap(record).timestamp >= cutoff
                 THEN saturating_add(used, Unwrap(record).amount_credits)
                 ELSE used)

(* A faulty variant: the scan starts one id after the cursor. *)
global_window_sum_skipping_cursor(st, t) ==
    global_window_sum_from(st.global_wd_map, unwrap_or(st.global_wd_oldest, 0) + 1,
                           unwrap_or(st.global_wd_counter, 0), t - WINDOW_SECONDS, 0)

(* The usage that check_global_limit computes from ids oldest..=counter. *)
global_window_sum(st, t) ==
    global_window_sum_from(st.global_wd_map, unwrap_or(st.global_wd_oldest, 0),
                           unwrap_or(st.global_wd_counter, 0), t - WINDOW_SECONDS, 0)

check_global_limit(st, env, credit_amount, cfg) ==
    LET used == global_window_sum(st, env.time)
    IN  IF ~can_minus_seconds(env.time, WINDOW_SECONDS) THEN "Panic"
        ELSE IF IsNone(checked_add(used, credit_amount)) THEN "Overflow"
        ELSE IF over_limit(used, credit_amount, cfg.global_daily_limit)
             THEN "GlobalDailyLimitExceeded"
        ELSE "ok"

reject_funds(info) ==
    IF info.funds # << >> THEN "UnexpectedFunds" ELSE "ok"

(* A faulty variant: only keys longer than 65 bytes are rejected. *)
validate_pubkey_upper_bound_only(pubkey) ==
    IF pubkey.len > 65 THEN "InvalidPubkeyLength" ELSE "ok"

validate_pubkey(pubkey) ==
    IF pubkey.len # 33 /\ pubkey.len # 65 THEN "InvalidPubkeyLength" ELSE "ok"

(* The decimal numerals that str::parse::<u64> is applied to in the model. *)
NumeralDomain ==
    { GENESIS_TIME + d : d \in {0, 1, WINDOW_SECONDS, NONCE_EXPIRY_WINDOW} }

parse_u64(segment) ==
    LET hits == { n \in NumeralDomain : ToString(n) = segment }
    IN  IF hits = {} THEN None ELSE Some(CHOOSE n \in hits : TRUE)

(* A faulty variant: a nonce never expires. *)
validate_nonce_timestamp_without_expiry(nonce, t) ==
    IF Len(nonce) < 2 \/ IsNone(parse_u64(Head(nonce)))
    THEN "InvalidNonceFormat" ELSE "ok"

(* A faulty variant: a nonce exactly as old as the window has expired. *)
validate_nonce_timestamp_inclusive(nonce, t) ==
    IF Len(nonce) < 2 \/ IsNone(parse_u64(Head(nonce))) THEN "InvalidNonceFormat"
    ELSE IF Unwrap(parse_u64(Head(nonce))) <= saturating_sub(t, NONCE_EXPIRY_WINDOW)
         THEN "NonceExpired"
    ELSE "ok"

validate_nonce_timestamp(nonce, t) ==
    IF Len(nonce) < 2 THEN "InvalidNonceFormat"
    ELSE LET nonce_ts == parse_u64(Head(nonce))
         IN  IF IsNone(nonce_ts) THEN "InvalidNonceFormat"
             ELSE IF Unwrap(nonce_ts) < saturating_sub(t, NONCE_EXPIRY_WINDOW)
                  THEN "NonceExpired"
             ELSE "ok"

(* deps.api.secp256k1_verify: None is the Err of the primitive (malformed     *)
(* input), Some(b) its verdict.  A signature verifies under a key exactly for *)
(* the digest it was made over with that key.                                 *)
secp256k1_verify(message_hash, signature, pubkey) ==
    IF ~signature.wellformed THEN None
    ELSE Some(signature.signer = pubkey.id /\ signature.digest = message_hash)
----------------------------------------------------------------------------
(* contract.rs: Withdraw *)

(* A faulty variant: the fee transfer is not counted as outgoing. *)
withdraw_total_outgoing_without_fee(token_amount, fee) == Some(token_amount)

(* token_amount (to the player) + fee (to the treasury) *)
withdraw_total_outgoing(token_amount, fee) == checked_add(token_amount, fee)

(* A faulty variant: any supplied token amount is taken as matching. *)
amount_mismatch_never(token_amount, net_tokens) == FALSE

(* A faulty variant: only a token amount above the expected net is a mismatch. *)
amount_mismatch_above_only(token_amount, net_tokens) == token_amount > net_tokens

amount_mismatch(token_amount, net_tokens) == token_amount # net_tokens

(* A faulty variant: the replay check is skipped. *)
nonce_is_used_never(st, nonce) == FALSE

(* USED_NONCES.may_load(deps.storage, &nonce)?.unwrap_or(false) *)
nonce_is_used(st, nonce) ==
    IF IsSome(may_load(st.used_nonces, nonce))
    THEN Unwrap(may_load(st.used_nonces, nonce)) ELSE FALSE

(* Faulty variants of withdraw_gates: the checks that follow the zero-amount *)
(* check, each taken alone, evaluated in another order.                      *)
withdraw_check(name, st, env, info, msg) ==
    LET cfg == st.config
        gross_tokens == credits_to_tokens(msg.credit_amount, cfg)
        fee == calculate_fee(Unwrap(gross_tokens), cfg.fee_bps)
        net_tokens == checked_sub(Unwrap(gross_tokens), Unwrap(fee))
        valid == secp256k1_verify(
                     build_withdrawal_message(cfg.chain_id, env.contract_address,
                         msg.nonce, info.sender, msg.credit_amount, msg.token_amount),
                     msg.signature, cfg.oracle_pubkey)
        total_outgoing == withdraw_total_outgoing(msg.token_amount, Unwrap(fee))
        remaining == checked_sub(env.contract_balance, Unwrap(total_outgoing))
        player_limits == check_player_limits(st, env, info.sender, msg.credit_amount, cfg)
    IN  CASE name = "nonce_timestamp" -> validate_nonce_timestamp(msg.nonce, env.time)
          [] name = "nonce_unused" ->
                 IF nonce_is_used(st, msg.nonce) THEN "NonceAlreadyUsed" ELSE "ok"
          [] name = "amounts" ->
                 IF IsNone(gross_tokens) \/ IsNone(fee) \/ IsNone(net_tokens)
                 THEN "Overflow"
                 ELSE IF amount_mismatch(msg.token_amount, Unwrap(net_tokens))
                      THEN "AmountMismatch" ELSE "ok"
          [] name = "signature" ->
                 IF IsNone(valid) THEN "SignatureVerificationFailed"
                 ELSE IF ~Unwrap(valid) THEN "InvalidSignature" ELSE "ok"
          [] name = "limits" ->
                 IF player_limits # "ok" THEN player_limits
                 ELSE check_global_limit(st, env, msg.credit_amount, cfg)
          [] name = "treasury" ->
                 IF IsNone(total_outgoing) THEN "Overflow"
                 ELSE IF IsNone(remaining) \/ Unwrap(remaining) < cfg.min_reserve
                      THEN "InsufficientTreasury" ELSE "ok"

RECURSIVE first_failed_check(_, _, _, _, _)
first_failed_check(order, st, env, info, msg) ==
    IF order = << >> THEN "ok"
    ELSE LET e == withdraw_check(Head(order), st, env, info, msg)
         IN  IF e # "ok" THEN e
             ELSE first_failed_check(Tail(order), st, env, info, msg)

withdraw_gates_reordered(order, st, env, info, msg) ==
    LET e == IF reject_funds(info) # "ok" THEN reject_funds(info)
             ELSE IF assert_not_paused(st) # "ok" THEN "Paused"
             ELSE IF msg.credit_amount = 0 \/ msg.token_amount = 0 THEN "ZeroAmount"
             ELSE first_failed_check(order, st, env, info, msg)
    IN  [err |-> e,
         fee |-> IF e = "ok"
                 THEN Unwrap(calculate_fee(
                          Unwrap(credits_to_tokens(msg.credit_amount, st.config)),
                          st.config.fee_bps))
                 ELSE 0]

(* A faulty variant: the signature is verified before the amounts are reconciled. *)
withdraw_gates_signature_first(st, env, info, msg) ==
    withdraw_gates_reordered(<< "nonce_timestamp", "nonce_unused", "signature",
                                "amounts", "limits", "treasury" >>, st, env, info, msg)

(* A faulty variant: the nonce is looked up after the signature is verified. *)
withdraw_gates_nonce_lookup_late(st, env, info, msg) ==
    withdraw_gates_reordered(<< "nonce_timestamp", "amounts", "signature",
                                "nonce_unused", "limits", "treasury" >>, st, env, info, msg)

(* The gates of execute_withdraw, in the order of the code. Returns the name *)
(* of the first error ("ok" if none) and the fee computed on the way.         *)
withdraw_gates(st, env, info, msg) ==
    LET cfg == st.config
        player == info.sender
        gross_tokens == credits_to_tokens(msg.credit_amount, cfg)
        fee == calculate_fee(Unwrap(gross_tokens), cfg.fee_bps)
        net_tokens == checked_sub(Unwrap(gross_tokens), Unwrap(fee))
        message_hash == build_withdrawal_message(cfg.chain_id, env.contract_address,
                            msg.nonce, player, msg.credit_amount, msg.token_amount)
        valid == secp256k1_verify(message_hash, msg.signature, cfg.oracle_pubkey)
        total_outgoing == withdraw_total_outgoing(msg.token_amount, Unwrap(fee))
        remaining == checked_sub(env.contract_balance, Unwrap(total_outgoing))
        fail(e) == [err |-> e, fee |-> 0]
    IN  IF reject_funds(info) # "ok" THEN fail(reject_funds(info))
        ELSE IF assert_not_paused(st) # "ok" THEN fail("Paused")
        ELSE IF msg.credit_amount = 0 \/ msg.token_amount = 0 THEN fail("ZeroAmount")
        ELSE IF validate_nonce_timestamp(msg.nonce, env.time) # "ok"
             THEN fail(validate_nonce_timestamp(msg.nonce, env.time))
        ELSE IF nonce_is_used(st, msg.nonce) THEN fail("NonceAlreadyUsed")
        ELSE IF IsNone(gross_tokens) THEN fail("Overflow")
        ELSE IF IsNone(fee) THEN fail("Overflow")
        ELSE IF IsNone(net_tokens) THEN fail("Overflow")
        ELSE IF amount_mismatch(msg.token_amount, Unwrap(net_tokens))
             THEN fail("AmountMismatch")
        ELSE IF IsNone(valid) THEN fail("SignatureVerificationFailed")
        ELSE IF ~Unwrap(valid) THEN fail("InvalidSignature")
        ELSE IF check_player_limits(st, env, player, msg.credit_amount, cfg) # "ok"
             THEN fail(check_player_limits(st, env, player, msg.credit_amount, cfg))
        ELSE IF check_global_limit(st, env, msg.credit_amount, cfg) # "ok"
             THEN fail(check_global_limit(st, env, msg.credit_amount, cfg))
        ELSE IF IsNone(total_outgoing) THEN fail("Overflow")
        ELSE IF IsNone(remaining) THEN fail("InsufficientTreasury")
        ELSE IF Unwrap(remaining) < cfg.min_reserve THEN fail("InsufficientTreasury")
        ELSE [err |-> "ok", fee |-> Unwrap(fee)]

(* The pruning loop: returns <<records, oldest>>. *)
(* A faulty variant: the cursor also removes records that are in the window. *)
RECURSIVE prune_global_any_age(_, _, _, _, _)
prune_global_any_age(records, oldest, counter, pruned, cutoff) ==
    IF ~(oldest < counter /\ pruned < PRUNE_BATCH) THEN << records, oldest >>
    ELSE prune_global_any_age(remove(records, oldest), oldest + 1, counter,
                              pruned + 1, cutoff)

(* A faulty variant: the cursor removes every expired record in one call. *)
RECURSIVE prune_global_unbounded(_, _, _, _, _)
prune_global_unbounded(records, oldest, counter, pruned, cutoff) ==
    IF ~(oldest < counter) THEN << records, oldest >>
    ELSE LET old_record == may_load(records, oldest)
         IN  IF IsSome(old_record)
             THEN IF Unwrap(old_record).timestamp < cutoff
                  THEN prune_global_unbounded(remove(records, oldest), oldest + 1,
                                              counter, pruned + 1, cutoff)
                  ELSE << records, oldest >>
             ELSE prune_global_unbounded(records, oldest + 1, counter,
                                         pruned + 1, cutoff)

(* A faulty variant: the cursor handles one id per call. *)
RECURSIVE prune_global_one_per_call(_, _, _, _, _)
prune_global_one_per_call(records, oldest, counter, pruned, cutoff) ==
    IF ~(oldest < counter /\ pruned < 1) THEN << records, oldest >>
    ELSE LET old_record == may_load(records, oldest)
         IN  IF IsSome(old_record)
             THEN IF Unwrap(old_record).timestamp < cutoff
                  THEN prune_global_one_per_call(remove(records, oldest), oldest + 1,
                                                 counter, pruned + 1, cutoff)
                  ELSE << records, oldest >>
             ELSE prune_global_one_per_call(records, oldest + 1, counter,
                                            pruned + 1, cutoff)

RECURSIVE prune_global(_, _, _, _, _)
prune_global(records, oldest, counter, pruned, cutoff) ==
    IF ~(oldest < counter /\ pruned < PRUNE_BATCH) THEN << records, oldest >>
    ELSE LET old_record == may_load(records, oldest)
         IN  IF IsSome(old_record)
             THEN IF Unwrap(old_record).timestamp < cutoff
                  THEN prune_global(remove(records, oldest), oldest + 1, counter,
                                    pruned + 1, cutoff)
                  ELSE << records, oldest >>
             ELSE prune_global(records, oldest + 1, counter, pruned + 1, cutoff)

(* USED_NONCES.save(deps.storage, &nonce, &true) *)
mark_nonce_used(st, nonce) ==
    [st EXCEPT !.used_nonces = save(st.used_nonces, nonce, TRUE)]

(* A faulty variant: the expired records of the player are kept. *)
withdraw_effects_keeping_expired(st, env, info, msg) ==
    LET player == info.sender
        record == [amount_credits |-> msg.credit_amount, timestamp |-> env.time]
        player_records == IF player \in DOMAIN st.player_wd
                          THEN st.player_wd[player] ELSE << >>
        counter == Unwrap(st.global_wd_counter) + 1
        saved == save(st.global_wd_map, counter, record)
        after == prune_global(saved, Unwrap(st.global_wd_oldest), counter, 0,
                              env.time - WINDOW_SECONDS)
        st1 == mark_nonce_used(st, msg.nonce)
    IN  [st1 EXCEPT
            !.player_wd = save(st.player_wd, player, Append(player_records, record)),
            !.player_last_wd = save(st.player_last_wd, player, env.time),
            !.global_wd_map = after[1],
            !.global_wd_counter = Some(counter),
            !.global_wd_oldest = Some(after[2])]

(* The writes of execute_withdraw after all gates passed. *)
withdraw_effects(st, env, info, msg) ==
    LET player == info.sender
        record == [amount_credits |-> msg.credit_amount, timestamp |-> env.time]
        player_records == IF player \in DOMAIN st.player_wd
                          THEN st.player_wd[player] ELSE << >>
        kept == sum_rolling_window(player_records, env.time, WINDOW_SECONDS)[1]
        counter == Unwrap(st.global_wd_counter) + 1
        saved == save(st.global_wd_map, counter, record)
        after == prune_global(saved, Unwrap(st.global_wd_oldest), counter, 0,
                              env.time - WINDOW_SECONDS)
        st1 == mark_nonce_used(st, msg.nonce)
    IN  [st1 EXCEPT
            !.player_wd = save(st.player_wd, player, Append(kept, record)),
            !.player_last_wd = save(st.player_last_wd, player, env.time),
            !.global_wd_map = after[1],
            !.global_wd_counter = Some(counter),
            !.global_wd_oldest = Some(after[2])]

(* A faulty variant: the fee transfer is sent even when the fee is zero. *)
withdraw_messages_fee_always(st, info, msg, fee) ==
    << BankSend(info.sender, msg.token_amount), BankSend(st.config.treasury, fee) >>

(* The bank messages of a successful withdrawal. *)
withdraw_messages(st, info, msg, fee) ==
    << BankSend(info.sender, msg.token_amount) >>
    \o (IF fee # 0 THEN << BankSend(st.config.treasury, fee) >> ELSE << >>)

(* A faulty variant: the nonce is marked used before the gates are evaluated. *)
execute_withdraw_nonce_first(st, env, info, msg) ==
    LET st1 == mark_nonce_used(st, msg.nonce)
        gates == withdraw_gates(st, env, info, msg)
    IN  IF gates.err # "ok" THEN Err(gates.err, st1)
        ELSE IF IsNone(st.global_wd_counter) \/ IsNone(st.global_wd_oldest)
             THEN Err("Std", st1)
        ELSE Ok(withdraw_effects(st1, env, info, msg),
                withdraw_messages(st, info, msg, gates.fee))

execute_withdraw(st, env, info, msg) ==
    LET gates == withdraw_gates(st, env, info, msg)
    IN  IF gates.err # "ok" THEN Err(gates.err, st)
        ELSE IF IsNone(st.global_wd_counter) \/ IsNone(st.global_wd_oldest)
             THEN Err("Std", st)
        ELSE Ok(withdraw_effects(st, env, info, msg),
                withdraw_messages(st, info, msg, gates.fee))

(* The storage removals of the pruning loop, in the order of its iterations. *)
RECURSIVE prune_events(_, _, _, _, _)
prune_events(records, oldest, counter, pruned, cutoff) ==
    IF ~(oldest < counter /\ pruned < PRUNE_BATCH) THEN << >>
    ELSE LET old_record == may_load(records, oldest)
         IN  IF IsSome(old_record)
             THEN IF Unwrap(old_record).timestamp < cutoff
                  THEN << [kind |-> "remove", item |-> "GLOBAL_WITHDRAWAL_RECORDS",
                           key |-> oldest, value |-> None] >>
                       \o prune_events(remove(records, oldest), oldest + 1, counter,
                                       pruned + 1, cutoff)
                  ELSE << >>
             ELSE prune_events(records, oldest + 1, counter, pruned + 1, cutoff)

(* The statements of execute_withdraw that write storage or build a bank    *)
(* message, grouped as in the code: the nonce and the player's records, the *)
(* global record and counter, the pruning loop and cursor, the messages.    *)
(* A load that fails ends the invocation before the groups that follow it.  *)
withdraw_statements(st, env, info, msg) ==
    LET gates == withdraw_gates(st, env, info, msg)
        player == info.sender
        record == [amount_credits |-> msg.credit_amount, timestamp |-> env.time]
        player_records == unwrap_or(may_load(st.player_wd, player), << >>)
        pruned == Append(sum_rolling_window(player_records, env.time,
                                            WINDOW_SECONDS)[1], record)
        counter == Unwrap(st.global_wd_counter) + 1
        saved == save(st.global_wd_map, counter, record)
        cutoff == env.time - WINDOW_SECONDS
        oldest == Unwrap(st.global_wd_oldest)
        messages == withdraw_messages(st, info, msg, gates.fee)
    IN  [player |->
            IF gates.err # "ok" THEN << >>
            ELSE << [kind |-> "save", item |-> "USED_NONCES",
                     key |-> msg.nonce, value |-> TRUE],
                    [kind |-> "save", item |-> "PLAYER_WITHDRAWALS",
                     key |-> player, value |-> pruned],
                    [kind |-> "save", item |-> "PLAYER_LAST_WITHDRAWAL",
                     key |-> player, value |-> env.time] >>,
         global |->
            IF gates.err # "ok" \/ IsNone(st.global_wd_counter) THEN << >>
            ELSE << [kind |-> "save", item |-> "GLOBAL_WITHDRAWAL_RECORDS",
                     key |-> counter, value |-> record],
                    [kind |-> "save", item |-> "GLOBAL_WD_COUNTER",
                     key |-> None, value |-> counter] >>,
         pruning |->
            IF gates.err # "ok" \/ IsNone(st.global_wd_counter)
                                \/ IsNone(st.global_wd_oldest) THEN << >>
            ELSE prune_events(saved, oldest, counter, 0, cutoff)
                 \o << [kind |-> "save", item |-> "GLOBAL_WD_OLDEST",
                        key |-> None,
                        value |-> prune_global(saved, oldest, counter, 0, cutoff)[2]] >>,
         messages |->
            IF gates.err # "ok" \/ IsNone(st.global_wd_counter)
                                \/ IsNone(st.global_wd_oldest) THEN << >>
            ELSE [i \in 1..Len(messages) |->
                     [kind |-> "message", item |-> "BankMsg::Send",
                      key |-> None, value |-> messages[i]]]]

(* A faulty variant: the bank messages are built before the global ledger is written. *)
withdraw_events_messages_early(st, env, info, msg) ==
    LET s == withdraw_statements(st, env, info, msg)
    IN  s.player \o s.messages \o s.global \o s.pruning

(* The storage writes and bank messages of one invocation of execute_withdraw, *)
(* in the order of its statements.                                             *)
withdraw_events(st, env, info, msg) ==
    LET s == withdraw_statements(st, env, info, msg)
    IN  s.player \o s.global \o s.pruning \o s.messages

----------------------------------------------------------------------------
(* contract.rs: Deposit and treasury management *)

(* The peak-balance ratchet of Deposit and FundTreasury. *)
(* A faulty variant: the peak is set to the balance observed, whichever is more. *)
update_peak_always(st, contract_balance) ==
    [st EXCEPT !.peak_balance = contract_balance]

update_peak(st, contract_balance) ==
    IF contract_balance > st.peak_balance
    THEN [st EXCEPT !.peak_balance = contract_balance]
    ELSE st

(* The attributes of the Response of a Deposit. *)
deposit_response(sender, sent, credit_amount) ==
    [action |-> "deposit", sender |-> sender,
     token_amount |-> sent.amount, credit_amount |-> credit_amount]

execute_deposit(st, env, info) ==
    LET cfg == st.config
        sent == info.funds[1]
        credit_amount == tokens_to_credits(sent.amount, cfg)
    IN  IF assert_not_paused(st) # "ok" THEN Err("Paused", st)
        ELSE IF info.funds = << >> THEN Err("NoFundsSent", st)
        ELSE IF Len(info.funds) > 1 THEN Err("MultipleDenomsSent", st)
        ELSE IF sent.denom # cfg.denom THEN Err("WrongDenom", st)
        ELSE IF sent.amount < cfg.min_deposit THEN Err("DepositBelowMinimum", st)
        ELSE IF IsNone(credit_amount) THEN Err("Overflow", st)
        ELSE [err |-> "ok", st |-> update_peak(st, env.contract_balance),
              msgs |-> << >>,
              attrs |-> deposit_response(info.sender, sent, Unwrap(credit_amount))]

execute_fund_treasury(st, env, info) ==
    LET cfg == st.config
        sent == info.funds[1]
    IN  IF assert_owner(st, info.sender) # "ok" THEN Err("Unauthorized", st)
        ELSE IF info.funds = << >> THEN Err("NoFundsSent", st)
        ELSE IF Len(info.funds) > 1 THEN Err("MultipleDenomsSent", st)
        ELSE IF sent.denom # cfg.denom THEN Err("WrongDenom", st)
        ELSE Ok(update_peak(st, env.contract_balance), << >>)

(* A faulty variant: the reserve is not compared with what remains. *)
reserve_breached_never(remaining, min_reserve) == FALSE

reserve_breached(remaining, min_reserve) == remaining < min_reserve

execute_withdraw_treasury(st, env, info, amount) ==
    LET cfg == st.config
        remaining == checked_sub(env.contract_balance, amount)
    IN  IF reject_funds(info) # "ok" THEN Err("UnexpectedFunds", st)
        ELSE IF assert_owner(st, info.sender) # "ok" THEN Err("Unauthorized", st)
        ELSE IF amount = 0 THEN Err("ZeroAmount", st)
        ELSE IF IsNone(remaining) THEN Err("ReserveBreached", st)
        ELSE IF reserve_breached(Unwrap(remaining), cfg.min_reserve)
             THEN Err("ReserveBreached", st)
        ELSE Ok(st, << BankSend(info.sender, amount) >>)
----------------------------------------------------------------------------
(* contract.rs: two-step oracle transfer *)

(* A faulty variant: a proposal replaces the transfer that is pending. *)
execute_propose_oracle_overwriting(st, info, new_oracle, new_pubkey) ==
    IF reject_funds(info) # "ok" THEN Err("UnexpectedFunds", st)
    ELSE IF assert_owner(st, info.sender) # "ok" THEN Err("Unauthorized", st)
    ELSE IF validate_pubkey(new_pubkey) # "ok" THEN Err("InvalidPubkeyLength", st)
    ELSE Ok([st EXCEPT !.pending_oracle =
                Some([proposed_oracle |-> new_oracle,
                      proposed_pubkey |-> new_pubkey])], << >>)

execute_propose_oracle(st, info, new_oracle, new_pubkey) ==
    IF reject_funds(info) # "ok" THEN Err("UnexpectedFunds", st)
    ELSE IF assert_owner(st, info.sender) # "ok" THEN Err("Unauthorized", st)
    ELSE IF validate_pubkey(new_pubkey) # "ok" THEN Err("InvalidPubkeyLength", st)
    ELSE IF IsSome(st.pending_oracle) THEN Err("OracleTransferAlreadyPending", st)
    ELSE Ok([st EXCEPT !.pending_oracle =
                Some([proposed_oracle |-> new_oracle,
                      proposed_pubkey |-> new_pubkey])], << >>)

(* A faulty variant: any sender may accept the pending transfer. *)
execute_accept_oracle_by_anyone(st, info) ==
    IF reject_funds(info) # "ok" THEN Err("UnexpectedFunds", st)
    ELSE IF IsNone(st.pending_oracle) THEN Err("NoOracleTransferPending", st)
    ELSE Ok([st EXCEPT
                !.config.oracle = Unwrap(st.pending_oracle).proposed_oracle,
                !.config.oracle_pubkey = Unwrap(st.pending_oracle).proposed_pubkey,
                !.pending_oracle = None], << >>)

(* A faulty variant: the proposed address is installed and the key is left as it was. *)
execute_accept_oracle_keeping_key(st, info) ==
    IF reject_funds(info) # "ok" THEN Err("UnexpectedFunds", st)
    ELSE IF IsNone(st.pending_oracle) THEN Err("NoOracleTransferPending", st)
    ELSE IF info.sender # Unwrap(st.pending_oracle).proposed_oracle
         THEN Err("NotPendingOracle", st)
    ELSE Ok([st EXCEPT
                !.config.oracle = Unwrap(st.pending_oracle).proposed_oracle,
                !.pending_oracle = None], << >>)

execute_accept_oracle(st, info) ==
    IF reject_funds(info) # "ok" THEN Err("UnexpectedFunds", st)
    ELSE IF IsNone(st.pending_oracle) THEN Err("NoOracleTransferPending", st)
    ELSE IF info.sender # Unwrap(st.pending_oracle).proposed_oracle
         THEN Err("NotPendingOracle", st)
    ELSE Ok([st EXCEPT
                !.config.oracle = Unwrap(st.pending_oracle).proposed_oracle,
                !.config.oracle_pubkey = Unwrap(st.pending_oracle).proposed_pubkey,
                !.pending_oracle = None], << >>)

(* A faulty variant: the proposed oracle may cancel as well. *)
execute_cancel_oracle_transfer_by_either_party(st, info) ==
    IF reject_funds(info) # "ok" THEN Err("UnexpectedFunds", st)
    ELSE IF IsNone(st.pending_oracle) THEN Err("NoOracleTransferPending", st)
    ELSE IF assert_owner(st, info.sender) # "ok"
            /\ info.sender # Unwrap(st.pending_oracle).proposed_oracle
         THEN Err("Unauthorized", st)
    ELSE Ok([st EXCEPT !.pending_oracle = None], << >>)

execute_cancel_oracle_transfer(st, info) ==
    IF reject_funds(info) # "ok" THEN Err("UnexpectedFunds", st)
    ELSE IF assert_owner(st, info.sender) # "ok" THEN Err("Unauthorized", st)
    ELSE IF IsNone(st.pending_oracle) THEN Err("NoOracleTransferPending", st)
    ELSE Ok([st EXCEPT !.pending_oracle = None], << >>)

(* contract.rs: admin config updates *)

execute_update_rate(st, info, rate_credits, rate_tokens) ==
    IF reject_funds(info) # "ok" THEN Err("UnexpectedFunds", st)
    ELSE IF assert_owner(st, info.sender) # "ok" THEN Err("Unauthorized", st)
    ELSE IF rate_credits = 0 \/ rate_tokens = 0 THEN Err("ZeroAmount", st)
    ELSE Ok([st EXCEPT !.config.rate_credits = rate_credits,
                       !.config.rate_tokens = rate_tokens], << >>)

(* A faulty variant: a fee of 10001 basis points is accepted. *)
execute_update_fee_above_cap(st, info, fee_bps) ==
    IF reject_funds(info) # "ok" THEN Err("UnexpectedFunds", st)
    ELSE IF assert_owner(st, info.sender) # "ok" THEN Err("Unauthorized", st)
    ELSE IF fee_bps > MAX_FEE_BPS + 1 THEN Err("Overflow", st)
    ELSE Ok([st EXCEPT !.config.fee_bps = fee_bps], << >>)

execute_update_fee(st, info, fee_bps) ==
    IF reject_funds(info) # "ok" THEN Err("UnexpectedFunds", st)
    ELSE IF assert_owner(st, info.sender) # "ok" THEN Err("Unauthorized", st)
    ELSE IF fee_bps > MAX_FEE_BPS THEN Err("Overflow", st)
    ELSE Ok([st EXCEPT !.config.fee_bps = fee_bps], << >>)

(* A faulty variant: a field without override is reset to zero. *)
execute_update_limits_defaulting(st, info, player_daily_limit, global_daily_limit, cooldown_seconds, min_deposit, min_reserve) ==
    LET set(o) == IF IsSome(o) THEN Unwrap(o) ELSE 0
    IN  IF reject_funds(info) # "ok" THEN Err("UnexpectedFunds", st)
        ELSE IF assert_owner(st, info.sender) # "ok" THEN Err("Unauthorized", st)
        ELSE Ok([st EXCEPT
                    !.config.player_daily_limit = set(player_daily_limit),
                    !.config.global_daily_limit = set(global_daily_limit),
                    !.config.cooldown_seconds = set(cooldown_seconds),
                    !.config.min_deposit = set(min_deposit),
                    !.config.min_reserve = set(min_reserve)], << >>)

(* Each override is an Option. *)
execute_update_limits(st, info, player_daily_limit, global_daily_limit, cooldown_seconds, min_deposit, min_reserve) ==
    LET c == st.config
        set(o, old) == IF IsSome(o) THEN Unwrap(o) ELSE old
    IN  IF reject_funds(info) # "ok" THEN Err("UnexpectedFunds", st)
        ELSE IF assert_owner(st, info.sender) # "ok" THEN Err("Unauthorized", st)
        ELSE Ok([st EXCEPT
                    !.config.player_daily_limit = set(player_daily_limit, c.player_daily_limit),
                    !.config.global_daily_limit = set(global_daily_limit, c.global_daily_limit),
                    !.config.cooldown_seconds = set(cooldown_seconds, c.cooldown_seconds),
                    !.config.min_deposit = set(min_deposit, c.min_deposit),
                    !.config.min_reserve = set(min_reserve, c.min_reserve)], << >>)

execute_pause(st, info) ==
    IF reject_funds(info) # "ok" THEN Err("UnexpectedFunds", st)
    ELSE IF assert_owner(st, info.sender) # "ok" THEN Err("Unauthorized", st)
    ELSE Ok([st EXCEPT !.config.paused = TRUE], << >>)

execute_unpause(st, info) ==
    IF reject_funds(info) # "ok" THEN Err("UnexpectedFunds", st)
    ELSE IF assert_owner(st, info.sender) # "ok" THEN Err("Unauthorized", st)
    ELSE IF ~st.config.paused THEN Err("NotPaused", st)
    ELSE Ok([st EXCEPT !.config.paused = FALSE], << >>)

(* contract.rs: two-step owner transfer *)

execute_propose_owner(st, info, new_owner) ==
    IF reject_funds(info) # "ok" THEN Err("UnexpectedFunds", st)
    ELSE IF assert_owner(st, info.sender) # "ok" THEN Err("Unauthorized", st)
    ELSE IF IsSome(st.pending_owner) THEN Err("OwnerTransferAlreadyPending", st)
    ELSE Ok([st EXCEPT !.pending_owner = Some([proposed_owner |-> new_owner])], << >>)

execute_accept_owner(st, info) ==
    IF reject_funds(info) # "ok" THEN Err("UnexpectedFunds", st)
    ELSE IF IsNone(st.pending_owner) THEN Err("NoOwnerTransferPending", st)
    ELSE IF info.sender # Unwrap(st.pending_owner).proposed_owner
         THEN Err("NotPendingOwner", st)
    ELSE Ok([st EXCEPT !.config.owner = Unwrap(st.pending_owner).proposed_owner,
                       !.pending_owner = None], << >>)

execute_cancel_owner_transfer(st, info) ==
    IF reject_funds(info) # "ok" THEN Err("UnexpectedFunds", st)
    ELSE IF assert_owner(st, info.sender) # "ok" THEN Err("Unauthorized", st)
    ELSE IF IsNone(st.pending_owner) THEN Err("NoOwnerTransferPending", st)
    ELSE Ok([st EXCEPT !.pending_owner = None], << >>)

----------------------------------------------------------------------------
(* contract.rs: queries *)

(* NonceUsedResponse.used *)
query_nonce_used(st, nonce) ==
    IF IsSome(may_load(st.used_nonces, nonce))
    THEN Unwrap(may_load(st.used_nonces, nonce)) ELSE FALSE

(* PlayerInfoResponse, or the panic that ends the query instead.  The sum  *)
(* of the window panics below 86400 seconds of block time, the end of the  *)
(* cooldown beyond the range of Timestamp.                                  *)
PlayerInfoResponse(withdrawals_24h, daily_limit, remaining_limit, cooldown_until) ==
    [err |-> "ok", withdrawals_24h |-> withdrawals_24h, daily_limit |-> daily_limit,
     remaining_limit |-> remaining_limit, cooldown_until |-> cooldown_until]

PlayerInfoErr(e) ==
    [err |-> e, withdrawals_24h |-> 0, daily_limit |-> 0, remaining_limit |-> 0,
     cooldown_until |-> None]

(* A faulty variant: the remaining limit is taken from the global cap. *)
query_player_info_of_global_cap(st, env, address) ==
    LET records == IF address \in DOMAIN st.player_wd
                   THEN st.player_wd[address] ELSE << >>
        used == sum_rolling_window(records, env.time, WINDOW_SECONDS)[2]
        remaining == saturating_sub(st.config.global_daily_limit, used)
        last_wd == may_load(st.player_last_wd, address)
    IN  IF ~can_minus_seconds(env.time, WINDOW_SECONDS) THEN PlayerInfoErr("Panic")
        ELSE IF IsNone(last_wd)
        THEN PlayerInfoResponse(used, st.config.player_daily_limit, remaining, None)
        ELSE IF IsNone(plus_seconds(Unwrap(last_wd), st.config.cooldown_seconds))
        THEN PlayerInfoErr("Panic")
        ELSE PlayerInfoResponse(used, st.config.player_daily_limit, remaining,
                 Some(Unwrap(plus_seconds(Unwrap(last_wd), st.config.cooldown_seconds))))

query_player_info(st, env, address) ==
    LET records == IF address \in DOMAIN st.player_wd
                   THEN st.player_wd[address] ELSE << >>
        used == sum_rolling_window(records, env.time, WINDOW_SECONDS)[2]
        remaining == saturating_sub(st.config.player_daily_limit, used)
        last_wd == may_load(st.player_last_wd, address)
    IN  IF ~can_minus_seconds(env.time, WINDOW_SECONDS) THEN PlayerInfoErr("Panic")
        ELSE IF IsNone(last_wd)
        THEN PlayerInfoResponse(used, st.config.player_daily_limit, remaining, None)
        ELSE IF IsNone(plus_seconds(Unwrap(last_wd), st.config.cooldown_seconds))
        THEN PlayerInfoErr("Panic")
        ELSE PlayerInfoResponse(used, st.config.player_daily_limit, remaining,
                 Some(Unwrap(plus_seconds(Unwrap(last_wd), st.config.cooldown_seconds))))

(* ConversionResponse, or the error that the query returns instead. *)
ConversionResponse(credit_amount, token_amount, fee_amount) ==
    [err |-> "ok", credit_amount |-> credit_amount,
     token_amount |-> token_amount, fee_amount |-> fee_amount]

QueryErr(e) == [err |-> e, credit_amount |-> 0, token_amount |-> 0, fee_amount |-> 0]

query_convert_credits_to_tokens(st, credit_amount) ==
    LET gross == credits_to_tokens(credit_amount, st.config)
        fee == calculate_fee(Unwrap(gross), st.config.fee_bps)
    IN  IF IsNone(gross) THEN QueryErr("Overflow")
        ELSE IF IsNone(fee) THEN QueryErr("Overflow")
        ELSE ConversionResponse(credit_amount,
                                saturating_sub(Unwrap(gross), Unwrap(fee)),
                                Unwrap(fee))

query_convert_tokens_to_credits(st, token_amount) ==
    LET credits == tokens_to_credits(token_amount, st.config)
    IN  IF IsNone(credits) THEN QueryErr("Overflow")
        ELSE ConversionResponse(Unwrap(credits), token_amount, 0)

----------------------------------------------------------------------------
(* contract.rs: instantiate *)

CONTRACT_NAME == "crates.io:sysbreak-credit-bridge"
(* env!("CARGO_PKG_VERSION"): the version of the package being built. *)
CONTRACT_VERSION == "CARGO_PKG_VERSION"

(* cw2::set_contract_version: the value saved in the CONTRACT item. *)
set_contract_version(name, version) == Some([contract |-> name, version |-> version])

EmptyStore ==
    [config |-> None, pending_oracle |-> None, pending_owner |-> None,
     used_nonces |-> EmptyMap, player_wd |-> EmptyMap, player_last_wd |-> EmptyMap,
     global_wd |-> None, peak_balance |-> 0, global_wd_map |-> EmptyMap,
     global_wd_counter |-> None, global_wd_oldest |-> None,
     contract_info |-> None]

instantiate(msg) ==
    IF msg.rate_credits = 0 \/ msg.rate_tokens = 0 THEN Err("ZeroAmount", EmptyStore)
    ELSE IF msg.fee_bps > MAX_FEE_BPS THEN Err("Overflow", EmptyStore)
    ELSE IF validate_pubkey(msg.oracle_pubkey) # "ok"
         THEN Err("InvalidPubkeyLength", EmptyStore)
    ELSE Ok([EmptyStore EXCEPT
                !.config = [owner |-> msg.owner,
                            oracle |-> msg.oracle,
                            paused |-> FALSE,
                            denom |-> msg.denom,
                            rate_credits |-> msg.rate_credits,
                            rate_tokens |-> msg.rate_tokens,
                            fee_bps |-> msg.fee_bps,
                            treasury |-> msg.treasury,
                            min_deposit |-> msg.min_deposit,
                            player_daily_limit |-> msg.player_daily_limit,
                            global_daily_limit |-> msg.global_daily_limit,
                            cooldown_seconds |-> msg.cooldown_seconds,
                            min_reserve |-> msg.min_reserve,
                            oracle_pubkey |-> msg.oracle_pubkey,
                            chain_id |-> msg.chain_id],
                !.peak_balance = 0,
                !.global_wd_counter = Some(0),
                !.global_wd_oldest = Some(0),
                !.contract_info = set_contract_version(CONTRACT_NAME, CONTRACT_VERSION)],
           << >>)
----------------------------------------------------------------------------
(* contract.rs: migrate *)

(* The loop over old_records: each record is saved under the next id. *)
RECURSIVE migrate_records(_, _, _)
migrate_records(records, old_records, counter) ==
    IF old_records = << >> THEN << records, counter >>
    ELSE migrate_records(save(records, counter + 1, Head(old_records)),
                         Tail(old_records), counter + 1)

(* A faulty variant: without a legacy vector the counters are reset. *)
migrate_resetting_counters(st) ==
    LET st1 == [st EXCEPT !.contract_info =
                   set_contract_version(CONTRACT_NAME, CONTRACT_VERSION)]
    IN  IF IsSome(st1.global_wd)
        THEN LET filled == migrate_records(st1.global_wd_map, Unwrap(st1.global_wd), 0)
             IN  Ok([st1 EXCEPT !.global_wd_map = filled[1],
                                !.global_wd_counter = Some(filled[2]),
                                !.global_wd_oldest = Some(1),
                                !.global_wd = None], << >>)
        ELSE Ok([st1 EXCEPT !.global_wd_counter = Some(0),
                            !.global_wd_oldest = Some(0)], << >>)

migrate(st) ==
    LET st1 == [st EXCEPT !.contract_info =
                   set_contract_version(CONTRACT_NAME, CONTRACT_VERSION)]
    IN  IF IsSome(st1.global_wd)
        THEN LET filled == migrate_records(st1.global_wd_map, Unwrap(st1.global_wd), 0)
             IN  Ok([st1 EXCEPT !.global_wd_map = filled[1],
                                !.global_wd_counter = Some(filled[2]),
                                !.global_wd_oldest = Some(1),
                                !.global_wd = None], << >>)
        ELSE Ok([st1 EXCEPT
                    !.global_wd_counter = IF IsNone(@) THEN Some(0) ELSE @,
                    !.global_wd_oldest = IF IsNone(@) THEN Some(0) ELSE @], << >>)

----------------------------------------------------------------------------
(* The environment: addresses, keys, nonces, signatures *)

OWNER == "owner"
NEW_OWNER == "owner2"
ORACLE == "oracle"
NEW_ORACLE == "oracle2"
TREASURY == "treasury"
CONTRACT == "contract"
Players == {"player1", "player2"}
DENOM == "ushido"
CHAIN_ID == "shido-testnet-1"

Key1 == [id |-> "k1", len |-> 33]
Key2 == [id |-> "k2", len |-> 65]
ShortKey == [id |-> "k3", len |-> 32]

(* Nonces "<timestamp>:<suffix>" and two malformed ones. *)
NonceA == << ToString(GENESIS_TIME), "a" >>
NonceB == << ToString(GENESIS_TIME), "b" >>
NonceC == << ToString(GENESIS_TIME), "a", "player2" >>
NonceLate == << ToString(GENESIS_TIME + 1), "a" >>
NonceNoColon == << "nonce" >>
NonceNoNumber == << "soon", "a" >>
GoodNonces == {NonceA, NonceB, NonceC}
Nonces == GoodNonces \cup {NonceNoColon, NonceNoNumber}

(* <<credit_amount, token_amount>> of the requests; under the initial rate  *)
(* and fee 1 credit is worth 2 tokens net and 2 credits 3 tokens net.        *)
Amounts == {<< 1, 2 >>, << 1, 3 >>, << 2, 2 >>, << 2, 3 >>}
ZeroAmounts == {<< 0, 2 >>, << 1, 0 >>}

(* What the oracle signs: the digest of the canonical message. intent records *)
(* the fields the signature was issued for; verification never reads it.      *)
oracle_sign(key, chain_id, contract_addr, nonce, player, credit_amount, token_amount) ==
    [wellformed |-> TRUE,
     signer |-> key.id,
     digest |-> build_withdrawal_message(chain_id, contract_addr, nonce, player,
                                         credit_amount, token_amount),
     intent |-> [chain_id |-> chain_id, contract |-> contract_addr, nonce |-> nonce,
                 player |-> player, credit_amount |-> credit_amount,
                 token_amount |-> token_amount]]

(* Bytes that are no signature at all. *)
GarbageSignature ==
    [wellformed |-> FALSE, signer |-> "nobody", digest |-> << >>, intent |-> << >>]

WithdrawMsg(nonce, c, t, sig) ==
    [nonce |-> nonce, credit_amount |-> c, token_amount |-> t, signature |-> sig]

(* A request signed with the first key for exactly the fields sent. *)
Honest(sender, n, c, t) ==
    WithdrawMsg(n, c, t, oracle_sign(Key1, CHAIN_ID, CONTRACT, n, sender, c, t))

HonestRequests(sender) ==
    { Honest(sender, n, a[1], a[2]) : n \in GoodNonces, a \in Amounts }
    \cup { Honest(sender, NonceA, a[1], a[2]) : a \in ZeroAmounts }
    \cup { Honest(sender, n, 1, 2) : n \in Nonces \ GoodNonces }

(* Signatures that differ from the request in one respect. *)
ForeignSignatures(sender, n, c, t) ==
    { oracle_sign(Key2, CHAIN_ID, CONTRACT, n, sender, c, t),
      oracle_sign(Key1, "shido-mainnet", CONTRACT, n, sender, c, t),
      oracle_sign(Key1, CHAIN_ID, "contract2", n, sender, c, t),
      oracle_sign(Key1, CHAIN_ID, CONTRACT, NonceB, sender, c, t),
      oracle_sign(Key1, CHAIN_ID, CONTRACT, n, CHOOSE p \in Players : p # sender, c, t),
      oracle_sign(Key1, CHAIN_ID, CONTRACT, n, sender, c + 1, t),
      oracle_sign(Key1, CHAIN_ID, CONTRACT, n, sender, c, t + 1),
      GarbageSignature }

ForeignRequests(sender) ==
    { WithdrawMsg(NonceA, 1, 2, sig) : sig \in ForeignSignatures(sender, NonceA, 1, 2) }
    \cup { WithdrawMsg(NonceC, 2, 3, oracle_sign(Key2, CHAIN_ID, CONTRACT, NonceC, sender, 2, 3)) }

Requests == [sender \in Players |-> HonestRequests(sender) \cup ForeignRequests(sender)]

Coin(denom, amount) == [denom |-> denom, amount |-> amount]

FundsSent ==
    { << >>, << Coin(DENOM, 1) >>, << Coin(DENOM, 2) >>, << Coin("uatom", 2) >>,
      << Coin(DENOM, 2), Coin("uatom", 1) >> }

InstantiateMsg ==
    [owner |-> OWNER, oracle |-> ORACLE, oracle_pubkey |-> Key1, denom |-> DENOM,
     rate_credits |-> 1, rate_tokens |-> 2, fee_bps |-> 2500, treasury |-> TREASURY,
     min_deposit |-> 2, player_daily_limit |-> 2, global_daily_limit |-> 3,
     cooldown_seconds |-> 1, min_reserve |-> 1, chain_id |-> CHAIN_ID]

----------------------------------------------------------------------------
(* The state machine *)

Store ==
    [config |-> config, pending_oracle |-> pending_oracle,
     pending_owner |-> pending_owner, used_nonces |-> used_nonces,
     player_wd |-> player_wd, player_last_wd |-> player_last_wd,
     global_wd |-> global_wd, peak_balance |-> peak_balance,
     global_wd_map |-> global_wd_map, global_wd_counter |-> global_wd_counter,
     global_wd_oldest |-> global_wd_oldest, contract_info |-> contract_info]

(* The amount of config.denom among the funds attached to a message. *)
RECURSIVE PaidIn(_)
PaidIn(funds) ==
    IF funds = << >> THEN 0
    ELSE (IF Head(funds).denom = DENOM THEN Head(funds).amount ELSE 0)
         + PaidIn(Tail(funds))

(* The amount that the bank messages move out of the contract. *)
RECURSIVE Outgoing(_)
Outgoing(msgs) ==
    IF msgs = << >> THEN 0
    ELSE (IF Head(msgs).to_address # CONTRACT THEN Head(msgs).amount ELSE 0)
         + Outgoing(Tail(msgs))

Env(funds) ==
    [time |-> now, contract_address |-> CONTRACT,
     contract_balance |-> balance + PaidIn(funds)]

Info(sender, funds) == [sender |-> sender, funds |-> funds]

(* The host keeps the writes and applies the bank messages of an invocation *)
(* that returned Ok, and discards the writes of one that returned Err.  A   *)
(* rejected invocation therefore changes nothing but last, and a behaviour  *)
(* is followed up to its first rejected invocation: what could follow it is *)
(* what follows the state before it.                                        *)
Commit(op, r, funds) ==
    \E st \in {IF r.err = "ok" THEN r.st ELSE Store} :
        /\ last.err = "ok"
        /\ config' = st.config
        /\ pending_oracle' = st.pending_oracle
        /\ pending_owner' = st.pending_owner
        /\ used_nonces' = st.used_nonces
        /\ player_wd' = st.player_wd
        /\ player_last_wd' = st.player_last_wd
        /\ global_wd' = st.global_wd
        /\ peak_balance' = st.peak_balance
        /\ global_wd_map' = st.global_wd_map
        /\ global_wd_counter' = st.global_wd_counter
        /\ global_wd_oldest' = st.global_wd_oldest
        /\ contract_info' = st.contract_info
        /\ balance' = IF r.err = "ok"
                      THEN balance + PaidIn(funds) - Outgoing(r.msgs)
                      ELSE balance
        /\ last' = [op |-> op, err |-> r.err, msgs |-> r.msgs]
        /\ UNCHANGED answer

NoAnswer == [query |-> "none", arg |-> 0, response |-> QueryErr("none")]

(* The storage st of a contract that holds treasury_balance. *)
InitStore(st, b, treasury_balance) ==
    /\ config = st.config
    /\ pending_oracle = st.pending_oracle
    /\ pending_owner = st.pending_owner
    /\ used_nonces = st.used_nonces
    /\ player_wd = st.player_wd
    /\ player_last_wd = st.player_last_wd
    /\ global_wd = st.global_wd
    /\ peak_balance = st.peak_balance
    /\ global_wd_map = st.global_wd_map
    /\ global_wd_counter = st.global_wd_counter
    /\ global_wd_oldest = st.global_wd_oldest
    /\ contract_info = st.contract_info
    /\ balance = treasury_balance
    /\ now = GENESIS_TIME
    /\ last = [op |-> "instantiate", err |-> "ok", msgs |-> << >>]
    /\ history = << >>
    /\ accepted = {}
    /\ cap_updates = {}
    /\ budget = b
    /\ answer = NoAnswer
    /\ effects = << >>

InitFrom(msg, b, treasury_balance) ==
    LET r == instantiate(msg)
    IN  /\ r.err = "ok"
        /\ InitStore(r.st, b, treasury_balance)

InitWith(b, treasury_balance) == InitFrom(InstantiateMsg, b, treasury_balance)

WithdrawStep(sender, msg, funds) ==
    /\ last.err = "ok"
    /\ \E r \in {execute_withdraw(Store, Env(funds), Info(sender, funds), msg)} :
        /\ r.err = "ok" => budget.withdrawals > 0
        /\ Commit("withdraw", r, funds)
        /\ history' = IF r.err = "ok"
                      THEN Append(history, [player |-> sender,
                                            amount_credits |-> msg.credit_amount,
                                            timestamp |-> now,
                                            nonce |-> msg.nonce])
                      ELSE history
        /\ accepted' = IF r.err = "ok"
                       THEN accepted \cup {[sender |-> sender, msg |-> msg]}
                       ELSE accepted
        /\ budget' = IF r.err = "ok"
                     THEN [budget EXCEPT !.withdrawals = @ - 1] ELSE budget
        /\ effects' = withdraw_events(Store, Env(funds), Info(sender, funds), msg)
        /\ UNCHANGED << now, cap_updates >>

Withdraw ==
    \E sender \in Players : \E msg \in Requests[sender] :
        WithdrawStep(sender, msg, << >>)

(* A Withdraw with coins attached. *)
WithdrawWithFunds ==
    \E sender \in Players :
        WithdrawStep(sender, Honest(sender, NonceA, 1, 2), << Coin(DENOM, 1) >>)

(* Block time advances between transactions. *)
Tick(d) ==
    /\ budget.ticks > 0
    /\ last.err = "ok"
    /\ now' = now + d
    /\ budget' = [budget EXCEPT !.ticks = @ - 1]
    /\ last' = [op |-> "advance_time", err |-> "ok", msgs |-> << >>]
    /\ UNCHANGED << config, pending_oracle, pending_owner, used_nonces,
                    player_wd, player_last_wd, global_wd, peak_balance,
                    global_wd_map, global_wd_counter, global_wd_oldest,
                    contract_info, balance, history, accepted, cap_updates, answer,
                    effects >>

AdvanceTime == \E d \in {1, WINDOW_SECONDS} : Tick(d)

(* Up to and just beyond the age at which a nonce expires. *)
AdvanceWeek == \E d \in {NONCE_EXPIRY_WINDOW, NONCE_EXPIRY_WINDOW + 1} : Tick(d)

(* Every operation other than Withdraw: a behaviour performs at most        *)
(* budget.ops of them with success.                                         *)
OpStep(op, result, funds) ==
    /\ budget.ops > 0
    /\ last.err = "ok"
    /\ \E r \in {result} :
         /\ Commit(op, r, funds)
         /\ budget' = IF r.err = "ok" THEN [budget EXCEPT !.ops = @ - 1] ELSE budget
    /\ UNCHANGED << now, history, accepted, effects >>

(* <<sender, funds>> of the operations below *)
Callers ==
    { << OWNER, << >> >>, << OWNER, << Coin(DENOM, 1) >> >>,
      << NEW_OWNER, << >> >>, << NEW_ORACLE, << >> >> }

Deposit ==
    \E sender \in Players : \E funds \in FundsSent :
        /\ balance + PaidIn(funds) <= MaxBalance
        /\ OpStep("deposit",
                  execute_deposit(Store, Env(funds), Info(sender, funds)), funds)
        /\ UNCHANGED cap_updates

FundTreasury ==
    \E sender \in {OWNER, NEW_OWNER} : \E funds \in FundsSent :
        /\ balance + PaidIn(funds) <= MaxBalance
        /\ OpStep("fund_treasury",
                  execute_fund_treasury(Store, Env(funds), Info(sender, funds)), funds)
        /\ UNCHANGED cap_updates

WithdrawTreasury ==
    \E c \in Callers : \E amount \in 0..(MaxBalance + 1) :
        /\ OpStep("withdraw_treasury",
                  execute_withdraw_treasury(Store, Env(c[2]), Info(c[1], c[2]), amount),
                  c[2])
        /\ UNCHANGED cap_updates

ProposeOracle ==
    \E c \in Callers : \E pubkey \in {Key2, ShortKey} :
        /\ OpStep("propose_oracle",
                  execute_propose_oracle(Store, Info(c[1], c[2]), NEW_ORACLE, pubkey),
                  c[2])
        /\ UNCHANGED cap_updates

AcceptOracle ==
    \E c \in Callers :
        /\ OpStep("accept_oracle", execute_accept_oracle(Store, Info(c[1], c[2])), c[2])
        /\ UNCHANGED cap_updates

CancelOracleTransfer ==
    \E c \in Callers :
        /\ OpStep("cancel_oracle_transfer",
                  execute_cancel_oracle_transfer(Store, Info(c[1], c[2])), c[2])
        /\ UNCHANGED cap_updates

UpdateRate ==
    \E c \in Callers : \E rate \in {<< 2, 3 >>, << 0, 1 >>, << 1, 0 >>} :
        /\ OpStep("update_rate",
                  execute_update_rate(Store, Info(c[1], c[2]), rate[1], rate[2]), c[2])
        /\ UNCHANGED cap_updates

UpdateFee ==
    \E c \in Callers : \E fee_bps \in {0, MAX_FEE_BPS + 1} :
        /\ OpStep("update_fee",
                  execute_update_fee(Store, Info(c[1], c[2]), fee_bps), c[2])
        /\ UNCHANGED cap_updates

(* <<player_daily_limit, global_daily_limit, cooldown_seconds, min_deposit, min_reserve>> *)
LimitOverrides ==
    { << None, None, None, None, None >>,
      << Some(1), None, None, None, None >>,
      << None, Some(2), None, None, None >>,
      << None, None, Some(0), None, None >>,
      << None, None, Some(WINDOW_SECONDS + 2), None, None >>,
      << None, None, None, Some(1), Some(2) >> }

UpdateLimits ==
    \E c \in Callers : \E o \in LimitOverrides :
        /\ last.err = "ok"
        /\ \E r \in {execute_update_limits(Store, Info(c[1], c[2]),
                                        o[1], o[2], o[3], o[4], o[5])} :
            /\ OpStep("update_limits", r, c[2])
            /\ cap_updates' =
                 IF r.err = "ok"
                 THEN cap_updates
                      \cup (IF IsSome(o[1]) THEN {"player_daily_limit"} ELSE {})
                      \cup (IF IsSome(o[2]) THEN {"global_daily_limit"} ELSE {})
                 ELSE cap_updates

Pause ==
    \E c \in Callers :
        /\ OpStep("pause", execute_pause(Store, Info(c[1], c[2])), c[2])
        /\ UNCHANGED cap_updates

Unpause ==
    \E c \in Callers :
        /\ OpStep("unpause", execute_unpause(Store, Info(c[1], c[2])), c[2])
        /\ UNCHANGED cap_updates

ProposeOwner ==
    \E c \in Callers :
        /\ OpStep("propose_owner",
                  execute_propose_owner(Store, Info(c[1], c[2]), NEW_OWNER), c[2])
        /\ UNCHANGED cap_updates

AcceptOwner ==
    \E c \in Callers :
        /\ OpStep("accept_owner", execute_accept_owner(Store, Info(c[1], c[2])), c[2])
        /\ UNCHANGED cap_updates

CancelOwnerTransfer ==
    \E c \in Callers :
        /\ OpStep("cancel_owner_transfer",
                  execute_cancel_owner_transfer(Store, Info(c[1], c[2])), c[2])
        /\ UNCHANGED cap_updates

(* Queries: they read the store and change nothing. *)
QueryStep(query, arg, response) ==
    /\ budget.ops > 0
    /\ answer' = [query |-> query, arg |-> arg, response |-> response]
    /\ budget' = [budget EXCEPT !.ops = @ - 1]
    /\ UNCHANGED << config, pending_oracle, pending_owner, used_nonces,
                    player_wd, player_last_wd, global_wd, peak_balance,
                    global_wd_map, global_wd_counter, global_wd_oldest,
                    contract_info, balance, now, last, history, accepted, cap_updates,
                    effects >>

(* Amounts up to the largest Uint128. *)
ConvertAmounts ==
    { 0, 1, 2, 3, 99, 100, 101, 199, 200, 10000, 1000000,
      Uint128Max \div 2, Uint128Max \div 2 + 1, Uint128Max }

QueryConvertCreditsToTokens ==
    \E credit_amount \in ConvertAmounts :
        QueryStep("convert_credits_to_tokens", credit_amount,
                  query_convert_credits_to_tokens(Store, credit_amount))

QueryConvertTokensToCredits ==
    \E token_amount \in ConvertAmounts :
        QueryStep("convert_tokens_to_credits", token_amount,
                  query_convert_tokens_to_credits(Store, token_amount))

----------------------------------------------------------------------------
(* Specifications *)

(* The withdrawal pipeline and the rate limiter over time. *)
Init ==
    InitWith([ticks |-> MaxTicks, withdrawals |-> MaxWithdrawals, ops |-> 0],
             2 * MaxBalance)

Next ==
    \/ Withdraw
    \/ WithdrawWithFunds
    \/ AdvanceTime

Spec == Init /\ [][Next]_vars

(* Withdrawals against a treasury that is funded and drawn from. *)
InitTreasury ==
    InitWith([ticks |-> 0, withdrawals |-> TreasuryWithdrawals, ops |-> TreasuryOps],
             MaxBalance - 1)

NextTreasury ==
    \/ Withdraw
    \/ Deposit
    \/ FundTreasury
    \/ WithdrawTreasury

SpecTreasury == InitTreasury /\ [][NextTreasury]_vars

(* Every execute message of the contract. *)
InitOps ==
    InitWith([ticks |-> OpsTicks, withdrawals |-> OpsWithdrawals, ops |-> OpsAdmin],
             MaxBalance - 1)

NextOps ==
    \/ Withdraw
    \/ WithdrawWithFunds
    \/ AdvanceTime
    \/ AdvanceWeek
    \/ Deposit
    \/ FundTreasury
    \/ WithdrawTreasury
    \/ ProposeOracle
    \/ AcceptOracle
    \/ CancelOracleTransfer
    \/ UpdateRate
    \/ UpdateFee
    \/ UpdateLimits
    \/ Pause
    \/ Unpause
    \/ ProposeOwner
    \/ AcceptOwner
    \/ CancelOwnerTransfer

SpecOps == InitOps /\ [][NextOps]_vars

(* Withdrawals over time under limits that the owner changes. *)
InitLimits ==
    InitWith([ticks |-> LimitsTicks, withdrawals |-> LimitsWithdrawals,
              ops |-> LimitsOps], 2 * MaxBalance)

NextLimits ==
    \/ Withdraw
    \/ AdvanceTime
    \/ UpdateLimits

SpecLimits == InitLimits /\ [][NextLimits]_vars

(* The PlayerInfo query between withdrawals, under limits that the owner   *)
(* changes, up to a cooldown that ends beyond the range of Timestamp.       *)
QueryPlayerInfo ==
    \E address \in Players :
        /\ last.err = "ok"
        /\ QueryStep("player_info", address,
                     query_player_info(Store, Env(<< >>), address))

ExtendCooldown ==
    /\ OpStep("update_limits",
              execute_update_limits(Store, Info(OWNER, << >>), None, None,
                                    Some(TimestampMaxSeconds), None, None), << >>)
    /\ UNCHANGED cap_updates

InitInfo ==
    InitWith([ticks |-> InfoTicks, withdrawals |-> InfoWithdrawals,
              ops |-> InfoOps], 2 * MaxBalance)

NextInfo ==
    \/ Withdraw
    \/ AdvanceTime
    \/ UpdateLimits
    \/ ExtendCooldown
    \/ QueryPlayerInfo

SpecInfo == InitInfo /\ [][NextInfo]_vars

(* Withdrawals of amounts up to the largest Uint128, under caps that allow *)
(* them and cooldowns up to the largest number of seconds.                  *)
LargeConfigs ==
    { [InstantiateMsg EXCEPT !.rate_tokens = rt, !.fee_bps = f,
                             !.player_daily_limit = Uint128Max,
                             !.global_daily_limit = Uint128Max,
                             !.cooldown_seconds = cd, !.min_reserve = 0] :
          rt \in {1, 2}, f \in {0, 2500}, cd \in {0, TimestampMaxSeconds} }

LargeCredits == { 1, Uint128Max \div 2, Uint128Max \div 2 + 1, Uint128Max }

(* The request that the oracle signs for these credits under the config of *)
(* the state: the net amount where the conversion has one, 1 token where it *)
(* overflows.                                                                *)
LargeRequest(sender, nonce, credits) ==
    LET gross == credits_to_tokens(credits, config)
        fee == calculate_fee(Unwrap(gross), config.fee_bps)
    IN  Honest(sender, nonce, credits,
               IF IsNone(gross) \/ IsNone(fee) THEN 1
               ELSE Unwrap(gross) - Unwrap(fee))

LargeRequests(sender) ==
    { LargeRequest(sender, n, c) : n \in GoodNonces, c \in LargeCredits }

WithdrawLarge ==
    \E sender \in Players : \E msg \in LargeRequests(sender) :
        WithdrawStep(sender, msg, << >>)

InitLarge ==
    \E msg \in LargeConfigs :
        InitFrom(msg, [ticks |-> LargeTicks, withdrawals |-> LargeWithdrawals,
                       ops |-> 0], Uint128Max)

NextLarge ==
    \/ WithdrawLarge
    \/ AdvanceTime

SpecLarge == InitLarge /\ [][NextLarge]_vars

(* Migration of the storage that earlier versions of the contract left:    *)
(* the global withdrawals as one vector, in the order they were made, and   *)
(* no counters.  The withdrawals of the vector are player2's.               *)
LEGACY_VERSION == "0.1.0"

LegacyRecords ==
    { [amount_credits |-> a, timestamp |-> t] :
          a \in {1, 2},
          t \in {GENESIS_TIME - WINDOW_SECONDS - 1, GENESIS_TIME - 1, GENESIS_TIME} }

LegacyVectors ==
    { v \in UNION { [1..n -> LegacyRecords] : n \in 0..MaxLegacy } :
          \A i \in 1..(Len(v) - 1) : v[i].timestamp <= v[i + 1].timestamp }

(* The storage without counters, as a version before the map left it. *)
CountersAbsentStore ==
    [instantiate(InstantiateMsg).st EXCEPT
        !.global_wd_counter = None,
        !.global_wd_oldest = None,
        !.contract_info = set_contract_version(CONTRACT_NAME, LEGACY_VERSION)]

LegacyStore(old_records) ==
    [CountersAbsentStore EXCEPT
        !.global_wd = Some(old_records),
        !.player_wd = IF old_records = << >> THEN EmptyMap
                      ELSE save(EmptyMap, "player2", old_records),
        !.player_last_wd =
            IF old_records = << >> THEN EmptyMap
            ELSE save(EmptyMap, "player2", old_records[Len(old_records)].timestamp)]

MigrateStarts ==
    { LegacyStore(v) : v \in LegacyVectors }
    \cup { CountersAbsentStore, instantiate(InstantiateMsg).st }

Migrate ==
    /\ OpStep("migrate", migrate(Store), << >>)
    /\ UNCHANGED cap_updates

InitMigrate ==
    \E st \in MigrateStarts :
        InitStore(st, [ticks |-> MigrateTicks, withdrawals |-> MigrateWithdrawals,
                       ops |-> MigrateOps], MaxBalance)

NextMigrate ==
    \/ Migrate
    \/ Withdraw
    \/ AdvanceTime

SpecMigrate == InitMigrate /\ [][NextMigrate]_vars

(* Withdrawals after the migration of a long legacy vector: up to          *)
(* PruneStale records that have left the window, followed by up to          *)
(* PruneFresh records within it.                                            *)
LongLegacyVector(stale, fresh) ==
    [i \in 1..(stale + fresh) |->
        [amount_credits |-> 1,
         timestamp |-> IF i <= stale THEN GENESIS_TIME - WINDOW_SECONDS - 1
                       ELSE GENESIS_TIME - 1]]

PruneStarts ==
    { LegacyStore(LongLegacyVector(stale, fresh)) :
          stale \in 0..PruneStale, fresh \in 0..PruneFresh }
    \cup { instantiate(InstantiateMsg).st }

InitPrune ==
    \E st \in PruneStarts :
        InitStore(st, [ticks |-> PruneTicks, withdrawals |-> PruneWithdrawals,
                       ops |-> PruneOps], 2 * MaxBalance)

NextPrune ==
    \/ Migrate
    \/ Withdraw
    \/ AdvanceTime

SpecPrune == InitPrune /\ [][NextPrune]_vars

(* The conversion queries under every rate and fee of ConvertConfigs. *)
ConvertRates == { << 1, 1 >>, << 1, 2 >>, << 1, 100 >>, << 2, 2 >>, << 2, 3 >>, << 3, 2 >> }

ConvertFees == { 0, 1, 50, 2500, 9999, MAX_FEE_BPS }

ConvertConfigs ==
    { [InstantiateMsg EXCEPT !.rate_credits = r[1], !.rate_tokens = r[2],
                             !.fee_bps = f] : r \in ConvertRates, f \in ConvertFees }

InitConvert ==
    \E msg \in ConvertConfigs :
        InitFrom(msg, [ticks |-> 0, withdrawals |-> 0, ops |-> ConvertQueries], 0)

NextConvert ==
    \/ QueryConvertCreditsToTokens
    \/ QueryConvertTokensToCredits

SpecConvert == InitConvert /\ [][NextConvert]_vars

----------------------------------------------------------------------------
(* Properties *)

(* A state in which the next message is delivered.  The state a rejected    *)
(* invocation leads to differs from the state before it in last only, and   *)
(* no message is delivered in it: whatever a property says of an invocation *)
(* in it, it says of the same invocation in the state before.               *)
Delivering == last.err = "ok"

(* The outcome of a Withdraw sent in the current state without coins. *)
Attempt(sender, msg) ==
    execute_withdraw(Store, Env(<< >>), Info(sender, << >>), msg)

(* The errors of execute_withdraw in the order of its gates. *)
GateOrder ==
    << "UnexpectedFunds", "Paused", "ZeroAmount", "InvalidNonceFormat",
       "NonceExpired", "NonceAlreadyUsed", "Overflow", "AmountMismatch",
       "SignatureVerificationFailed", "InvalidSignature", "CooldownActive",
       "PlayerDailyLimitExceeded", "GlobalDailyLimitExceeded",
       "InsufficientTreasury" >>

(* The errors of the gates that precede the one raising e. *)
ErrorsBefore(e) ==
    { GateOrder[i] : i \in { j \in DOMAIN GateOrder :
                               \E k \in DOMAIN GateOrder : j < k /\ GateOrder[k] = e } }

(* The successful withdrawals, as the behaviour saw them. *)
RECURSIVE SumCredits(_)
SumCredits(records) ==
    IF records = << >> THEN 0
    ELSE Head(records).amount_credits + SumCredits(Tail(records))

InWindow(record) ==
    record.timestamp >= now - WINDOW_SECONDS /\ record.timestamp <= now

PlayerUsage(p) ==
    SumCredits(SelectSeq(history, LAMBDA h : h.player = p /\ InWindow(h)))

GlobalUsage == SumCredits(SelectSeq(history, InWindow))

(* floor(credits * rate_tokens / rate_credits) *)
GrossTokens(credits) == (credits * config.rate_tokens) \div config.rate_credits

(* floor(gross * fee_bps / 10000) *)
FeeTokens(credits) == (GrossTokens(credits) * config.fee_bps) \div BPS_DENOMINATOR

ExpectedNet(credits) == GrossTokens(credits) - FeeTokens(credits)

\* C1: once Withdraw has succeeded with a nonce, no later Withdraw carrying
\* that nonce succeeds, whoever sends it and whatever happened in between: no
\* nonce occurs twice among the successful withdrawals, and in every
\* reachable state every request carrying an accepted nonce is rejected.
NonceNeverAcceptedTwice ==
    /\ \A i, j \in DOMAIN history :
         i # j => history[i].nonce # history[j].nonce
    /\ Delivering =>
         \A sender \in Players : \A msg \in Requests[sender] :
             (\E i \in DOMAIN history : history[i].nonce = msg.nonce)
                 => Attempt(sender, msg).err # "ok"

\* C1 witness: a nonce was accepted and a later request with a used nonce was
\* rejected.
ReplayRejected ==
    /\ history # << >>
    /\ last.op = "withdraw"
    /\ last.err = "NonceAlreadyUsed"

\* C2: a Withdraw that is rejected, at whichever gate, returns the store it
\* was given, field by field, and no bank message.
RejectedWithdrawChangesNothing ==
    Delivering =>
    \A sender \in Players : \A msg \in Requests[sender] :
        \A funds \in {<< >>, << Coin(DENOM, 1) >>} :
            \A r \in {execute_withdraw(Store, Env(funds), Info(sender, funds), msg)} :
                r.err # "ok" => r.st = Store /\ r.msgs = << >>

\* C2 witness: after an earlier withdrawal, a Withdraw was rejected at the
\* last gate, the treasury reserve.
RejectedAtLastGate ==
    /\ history # << >>
    /\ last.op = "withdraw"
    /\ last.err = "InsufficientTreasury"
    /\ last.msgs = << >>

\* C3: a Withdraw succeeds only with token_amount equal to the net amount
\* recomputed from the stored rate and fee, and a request with any other
\* token_amount that gets as far as the reconciliation is rejected with
\* AmountMismatch, whatever its signature.
AmountReconciled ==
    Delivering =>
    \A sender \in Players : \A msg \in Requests[sender] :
        \A r \in {Attempt(sender, msg)} :
            /\ r.err = "ok" => msg.token_amount = ExpectedNet(msg.credit_amount)
            /\ (/\ msg.token_amount # ExpectedNet(msg.credit_amount)
                /\ r.err \notin ErrorsBefore("AmountMismatch"))
                   => r.err = "AmountMismatch"

\* C3 witness: a request signed by the oracle for exactly its fields was
\* rejected for its token amount.
SignedMismatchRejected ==
    /\ last.op = "withdraw"
    /\ last.err = "AmountMismatch"
    /\ \E sender \in Players : \E msg \in Requests[sender] :
         /\ msg.signature = oracle_sign(config.oracle_pubkey, config.chain_id,
                                CONTRACT, msg.nonce, sender,
                                msg.credit_amount, msg.token_amount)
         /\ Attempt(sender, msg).err = "AmountMismatch"

\* C4: a Withdraw succeeds only with a signature made with the key stored
\* in config at the time of the call, issued for exactly the configured
\* chain id, this contract, the nonce, the sender and the two amounts of the
\* request.
SignatureBindsRequest ==
    Delivering =>
    \A sender \in Players : \A msg \in Requests[sender] :
        Attempt(sender, msg).err = "ok" =>
            /\ msg.signature.wellformed
            /\ msg.signature.signer = config.oracle_pubkey.id
            /\ msg.signature.intent =
                 [chain_id |-> config.chain_id, contract |-> CONTRACT,
                  nonce |-> msg.nonce, player |-> sender,
                  credit_amount |-> msg.credit_amount,
                  token_amount |-> msg.token_amount]

\* C4 witness: after the oracle key was rotated a withdrawal signed with the
\* new key succeeded.
WithdrawnUnderRotatedKey ==
    /\ last.op = "withdraw"
    /\ last.err = "ok"
    /\ config.oracle_pubkey = Key2
    /\ \E a \in accepted : a.msg.signature.signer = Key2.id

(* The times of the successful withdrawals of player p. *)
WithdrawalTimes(p) ==
    { history[i].timestamp : i \in { j \in DOMAIN history : history[j].player = p } }

(* p withdrew before and the cooldown since the latest time has not elapsed. *)
Cooling(p) ==
    /\ WithdrawalTimes(p) # {}
    /\ \E t \in WithdrawalTimes(p) :
         /\ \A u \in WithdrawalTimes(p) : u <= t
         /\ now < t + config.cooldown_seconds

\* C5: a Withdraw by p that passes the gates before the cooldown is rejected
\* with CooldownActive exactly when p has a previous successful withdrawal at
\* time last and now < last + cooldown_seconds; from last + cooldown_seconds
\* on the cooldown gate passes.
CooldownExact ==
    Delivering =>
    \A sender \in Players : \A msg \in Requests[sender] :
        \A r \in {Attempt(sender, msg)} :
            /\ r.err = "CooldownActive" => Cooling(sender)
            /\ (Cooling(sender) /\ r.err \notin ErrorsBefore("CooldownActive"))
                   => r.err = "CooldownActive"

\* C5 witness: a player withdrew twice, the second time exactly
\* cooldown_seconds after the first, having been able to ask earlier.
WithdrawnWhenCooldownEnds ==
    /\ last.op = "withdraw"
    /\ last.err = "ok"
    /\ config.cooldown_seconds > 0
    /\ \E i, j \in DOMAIN history :
         /\ i < j
         /\ history[i].player = history[j].player
         /\ history[j].timestamp = history[i].timestamp + config.cooldown_seconds

\* C6: while player_daily_limit is unchanged, the credits of a player's
\* successful withdrawals with timestamps in [now - 86400, now] never sum to
\* more than player_daily_limit; a request that fits the cap is not rejected
\* for it, and one that would exceed it does not get past the gate.
PlayerCapHolds ==
    "player_daily_limit" \notin cap_updates =>
        /\ \A p \in Players : PlayerUsage(p) <= config.player_daily_limit
        /\ Delivering =>
             \A sender \in Players : \A msg \in Requests[sender] :
                 \A r \in {Attempt(sender, msg)} :
                     /\ r.err = "PlayerDailyLimitExceeded"
                          => PlayerUsage(sender) + msg.credit_amount
                                 > config.player_daily_limit
                     /\ (/\ PlayerUsage(sender) + msg.credit_amount
                                > config.player_daily_limit
                         /\ r.err \notin ErrorsBefore("PlayerDailyLimitExceeded"))
                            => r.err = "PlayerDailyLimitExceeded"

\* C6 witness: two withdrawals of a player summed to exactly the cap, and a
\* further request, made before either record expired, was rejected for the
\* cap.
FurtherCreditOverCapRejected ==
    /\ last.op = "withdraw"
    /\ last.err = "PlayerDailyLimitExceeded"
    /\ \E p \in Players :
         /\ PlayerUsage(p) = config.player_daily_limit
         /\ Cardinality(WithdrawalTimes(p)) = 2
         /\ Attempt(p, Honest(p, NonceC, 1, 2)).err = "PlayerDailyLimitExceeded"

\* C7: while global_daily_limit is unchanged, the credits of all successful
\* withdrawals with timestamps in [now - 86400, now] never sum to more than
\* global_daily_limit; and the usage that the global check computes from the
\* stored records equals that sum, whatever has been pruned.
GlobalCapHolds ==
    /\ "global_daily_limit" \notin cap_updates
           => GlobalUsage <= config.global_daily_limit
    /\ global_window_sum(Store, now) = GlobalUsage

\* C7 witness: an expired record was pruned, the cursor moved past it, and
\* the withdrawals in the window sum to exactly the global cap.
PrunedAndAtGlobalCap ==
    /\ Unwrap(global_wd_oldest) >= 2
    /\ \E i \in DOMAIN history : ~InWindow(history[i])
    /\ GlobalUsage = config.global_daily_limit
    /\ Cardinality({ history[i].player : i \in DOMAIN history }) = 2

\* C8: with balance B and min_reserve R, a Withdraw that passes the gates
\* before the treasury check succeeds iff B >= token_amount + fee and
\* B - (token_amount + fee) >= R, and fails with InsufficientTreasury
\* otherwise; what it sends out is token_amount + fee, so that the balance is
\* still at least R once the transfers of a successful Withdraw are applied.
WithdrawReserveFloor ==
    /\ (last.op = "withdraw" /\ last.err = "ok") => balance >= config.min_reserve
    /\ Delivering =>
         \A sender \in Players : \A msg \in Requests[sender] :
             \A r \in {Attempt(sender, msg)} :
                 r.err \notin ErrorsBefore("InsufficientTreasury") =>
                     LET total == msg.token_amount + FeeTokens(msg.credit_amount)
                     IN  /\ r.err = "ok" <=>
                               /\ balance >= total
                               /\ balance - total >= config.min_reserve
                         /\ r.err # "ok" => r.err = "InsufficientTreasury"
                         /\ r.err = "ok" => Outgoing(r.msgs) = total

\* C8 witness: a withdrawal whose payout and fee were exactly B - R
\* succeeded and left the balance at the reserve.
WithdrawnDownToReserve ==
    /\ last.op = "withdraw"
    /\ last.err = "ok"
    /\ Len(last.msgs) = 2
    /\ balance = config.min_reserve

\* C9: with balance B and min_reserve R, WithdrawTreasury(amount) sent by the
\* owner without coins succeeds, with one transfer of amount to the owner,
\* iff amount > 0, amount <= B and B - amount >= R; an amount above B or
\* leaving less than R fails with ReserveBreached and sends nothing.
TreasuryReserveFloor ==
    Delivering =>
    \A amount \in 0..(MaxBalance + 1) :
        \A r \in {execute_withdraw_treasury(Store, Env(<< >>),
                                            Info(config.owner, << >>), amount)} :
            /\ r.err = "ok" <=>
                  /\ amount > 0
                  /\ amount <= balance
                  /\ balance - amount >= config.min_reserve
            /\ r.err = "ok" => r.msgs = << BankSend(config.owner, amount) >>
            /\ (amount > balance \/ (amount > 0 /\ balance - amount < config.min_reserve))
                  => r.err = "ReserveBreached" /\ r.msgs = << >>

\* C9 witness: the owner withdrew an amount that left exactly the reserve.
TreasuryDrawnDownToReserve ==
    /\ last.op = "withdraw_treasury"
    /\ last.err = "ok"
    /\ Len(last.msgs) = 1
    /\ balance = config.min_reserve

(* The time that a well-formed nonce carries. *)
NonceTime(nonce) == Unwrap(parse_u64(Head(nonce)))

(* Every successful withdrawal of the behaviour is older than the 24h window *)
(* and than the cooldown.                                                    *)
WindowsReset ==
    \A i \in DOMAIN history :
        /\ history[i].timestamp + WINDOW_SECONDS < now
        /\ history[i].timestamp + config.cooldown_seconds <= now

\* C10 as stated: the replay of an accepted request by its sender fails with
\* NonceAlreadyUsed at any later block time (the contract not being paused).
ReplayAlwaysNonceAlreadyUsed ==
    \A a \in accepted :
        ~config.paused => Attempt(a.sender, a.msg).err = "NonceAlreadyUsed"

\* C10 amended: the replay of an accepted request by its sender never
\* succeeds; while the contract is not paused it fails with NonceAlreadyUsed
\* as long as the time in the nonce is at most 604800 seconds old, and with
\* NonceExpired once it is older; while paused it fails with Paused.
ReplayFailsByUseOrAge ==
    \A a \in accepted :
        \A r \in {Attempt(a.sender, a.msg)} :
            /\ r.err # "ok"
            /\ r.err = IF config.paused THEN "Paused"
                       ELSE IF NonceTime(a.msg.nonce) + NONCE_EXPIRY_WINDOW < now
                            THEN "NonceExpired"
                       ELSE "NonceAlreadyUsed"

\* C10 witness: after the cooldown and the 24h windows had passed, with the
\* nonce not yet expired, the replay was rejected with NonceAlreadyUsed.
ReplayRejectedAfterWindowsReset ==
    /\ last.op = "withdraw"
    /\ last.err = "NonceAlreadyUsed"
    /\ ~config.paused
    /\ accepted # {}
    /\ WindowsReset
    /\ \A a \in accepted : Attempt(a.sender, a.msg).err = "NonceAlreadyUsed"

(* What a request violates, told from the configuration, the balance, the    *)
(* block time and the successful withdrawals so far.                          *)
StaleNonce(msg) ==
    \/ msg.nonce \notin GoodNonces
    \/ NonceTime(msg.nonce) + NONCE_EXPIRY_WINDOW < now

UsedNonce(msg) == \E i \in DOMAIN history : history[i].nonce = msg.nonce

Mismatched(msg) == msg.token_amount # ExpectedNet(msg.credit_amount)

Unsigned(sender, msg) ==
    msg.signature # oracle_sign(config.oracle_pubkey, config.chain_id, CONTRACT,
                                msg.nonce, sender, msg.credit_amount, msg.token_amount)

OverPlayerCap(sender, msg) ==
    PlayerUsage(sender) + msg.credit_amount > config.player_daily_limit

OverGlobalCap(msg) == GlobalUsage + msg.credit_amount > config.global_daily_limit

Insolvent(msg) ==
    balance - (msg.token_amount + FeeTokens(msg.credit_amount)) < config.min_reserve

(* The violations in the order of the request pipeline, each with the errors *)
(* that report it.                                                            *)
Pipeline(sender, msg) ==
    << << StaleNonce(msg), {"InvalidNonceFormat", "NonceExpired"} >>,
       << UsedNonce(msg), {"NonceAlreadyUsed"} >>,
       << Mismatched(msg), {"AmountMismatch"} >>,
       << Unsigned(sender, msg), {"SignatureVerificationFailed", "InvalidSignature"} >>,
       << Cooling(sender), {"CooldownActive"} >>,
       << OverPlayerCap(sender, msg), {"PlayerDailyLimitExceeded"} >>,
       << OverGlobalCap(msg), {"GlobalDailyLimitExceeded"} >>,
       << Insolvent(msg), {"InsufficientTreasury"} >> >>

(* The errors that may answer a request whose violations are gates: those of *)
(* its earliest violated gate, "ok" if it violates none.                      *)
EarliestViolation(gates) ==
    IF \A k \in DOMAIN gates : ~gates[k][1] THEN {"ok"}
    ELSE gates[CHOOSE k \in DOMAIN gates :
                   gates[k][1] /\ \A j \in 1..(k - 1) : ~gates[j][1]][2]

(* A request that gets as far as the nonce checks. *)
Screened(msg) ==
    ~config.paused /\ msg.credit_amount # 0 /\ msg.token_amount # 0

\* C11: a Withdraw passes nonce freshness, nonce unused, amount
\* reconciliation, signature, cooldown, player cap, global cap and treasury
\* solvency in this order: the error of a request is that of the earliest
\* gate it violates, and it succeeds (and only then writes) iff it
\* violates none.
GatesInPipelineOrder ==
    Delivering =>
    \A sender \in Players : \A msg \in Requests[sender] :
        Screened(msg) =>
            \A r \in {Attempt(sender, msg)} :
                /\ r.err \in EarliestViolation(Pipeline(sender, msg))
                /\ r.st # Store => r.err = "ok"

\* C11 witness: a request with a used nonce, a token amount that does not
\* match and a sender in cooldown was answered with NonceAlreadyUsed.
SeveralViolationsEarliestReported ==
    /\ last.op = "withdraw"
    /\ last.err = "NonceAlreadyUsed"
    /\ \E sender \in Players : \E msg \in Requests[sender] :
         /\ UsedNonce(msg) /\ Mismatched(msg) /\ Cooling(sender)
         /\ Attempt(sender, msg).err = "NonceAlreadyUsed"

SignatureErrors == {"SignatureVerificationFailed", "InvalidSignature"}

\* C12 as stated: the amounts and then the signature are checked before the
\* nonce is looked up, so that a request with a used nonce and a token
\* amount that does not match or a signature that does not verify is
\* answered with AmountMismatch or a signature error.
StatelessChecksBeforeNonceLookup ==
    \A sender \in Players : \A msg \in Requests[sender] :
        (/\ Screened(msg) /\ ~StaleNonce(msg) /\ UsedNonce(msg)
         /\ (Mismatched(msg) \/ Unsigned(sender, msg)))
            => Attempt(sender, msg).err \in {"AmountMismatch"} \cup SignatureErrors

\* C12 amended: the nonce is looked up first, and a request with a used
\* nonce is answered with NonceAlreadyUsed whatever its amounts and
\* signature; of a request with an unused nonce the amounts and then the
\* signature are checked before the limits and the treasury, whatever these
\* would say.
StatelessChecksAfterNonceLookup ==
    Delivering =>
    \A sender \in Players : \A msg \in Requests[sender] :
        (Screened(msg) /\ ~StaleNonce(msg)) =>
            \A r \in {Attempt(sender, msg)} :
                /\ UsedNonce(msg) => r.err = "NonceAlreadyUsed"
                /\ (~UsedNonce(msg) /\ Mismatched(msg)) => r.err = "AmountMismatch"
                /\ (~UsedNonce(msg) /\ ~Mismatched(msg) /\ Unsigned(sender, msg))
                       => r.err \in SignatureErrors

\* C12 witness: a request with a used nonce, matching amounts and a
\* signature that does not verify was answered with NonceAlreadyUsed.
UsedNonceReportedBeforeSignature ==
    /\ last.op = "withdraw"
    /\ last.err = "NonceAlreadyUsed"
    /\ \E sender \in Players : \E msg \in Requests[sender] :
         /\ UsedNonce(msg) /\ ~Mismatched(msg) /\ Unsigned(sender, msg)
         /\ Attempt(sender, msg).err = "NonceAlreadyUsed"

(* The step is a successful Withdraw of request a. *)
Withdrawn(a) ==
    /\ a \in accepted' \ accepted
    /\ last'.op = "withdraw" /\ last'.err = "ok"

AtMostADayOld(h) == h.timestamp + 86400 >= now

RecordOf(h) == [amount_credits |-> h.amount_credits, timestamp |-> h.timestamp]

StoredRecords(p) == IF p \in DOMAIN player_wd THEN player_wd[p] ELSE << >>

\* C14: the lower bound of the window is inclusive: the usage that the
\* per-player check and the global check compute is the sum over the
\* successful withdrawals with timestamp >= now - 86400, one made exactly
\* 86400 seconds ago included and one made 86401 seconds ago not; and
\* every withdrawal at most 86400 seconds old is still among the player's
\* stored records and in the global ledger, whatever was pruned since.
WindowBoundaryInclusive ==
    /\ \A p \in Players :
         sum_rolling_window(StoredRecords(p), now, 86400)[2]
             = SumCredits(SelectSeq(history,
                   LAMBDA h : h.player = p /\ AtMostADayOld(h)))
    /\ global_window_sum(Store, now)
           = SumCredits(SelectSeq(history, AtMostADayOld))
    /\ \A i \in DOMAIN history :
         AtMostADayOld(history[i]) =>
             /\ \E k \in DOMAIN StoredRecords(history[i].player) :
                  StoredRecords(history[i].player)[k] = RecordOf(history[i])
             /\ \E id \in DOMAIN global_wd_map :
                  /\ global_wd_map[id] = RecordOf(history[i])
                  /\ id >= Unwrap(global_wd_oldest)

\* C14 witness: a player withdrew again exactly 86400 seconds after a
\* withdrawal; the earlier record was counted, and kept by the pruning of
\* that invocation.
WithdrawnAtWindowBoundary ==
    /\ last.op = "withdraw" /\ last.err = "ok"
    /\ \E i, j \in DOMAIN history :
         /\ history[i].player = history[j].player
         /\ history[j].timestamp = now
         /\ history[i].timestamp = now - 86400
         /\ Len(StoredRecords(history[i].player)) = 2
         /\ Unwrap(global_wd_oldest) <= i
         /\ PlayerUsage(history[i].player)
                = history[i].amount_credits + history[j].amount_credits

(* All successful withdrawals of p are older than the window, and they sum  *)
(* to the player cap, which has not been changed.                            *)
CapUsedAndWindowElapsed(p) ==
    /\ "player_daily_limit" \notin cap_updates
    /\ WithdrawalTimes(p) # {}
    /\ \A t \in WithdrawalTimes(p) : t + 86400 < now
    /\ SumCredits(SelectSeq(history, LAMBDA h : h.player = p))
           = config.player_daily_limit

(* A request for as much as the cap that gets as far as the cooldown. *)
ReachesLimits(sender, msg) ==
    /\ msg.credit_amount = config.player_daily_limit
    /\ Attempt(sender, msg).err \notin ErrorsBefore("CooldownActive")

\* C15 as stated: once the 24h window has fully elapsed since the
\* withdrawals by which a player used the full cap, a request of that player
\* for the same amount passes the cooldown gate and the cap gate.
CapRecoversWithCooldown ==
    \A sender \in Players : \A msg \in Requests[sender] :
        (CapUsedAndWindowElapsed(sender) /\ ReachesLimits(sender, msg))
            => Attempt(sender, msg).err
                   \notin {"CooldownActive", "PlayerDailyLimitExceeded"}

\* C15 amended: once the 24h window has fully elapsed since the withdrawals
\* by which a player used the full cap, the stale records count for nothing
\* and a request of that player for the same amount passes the cap gate; it
\* passes the cooldown gate iff cooldown_seconds have passed since the
\* player's last withdrawal.
CapRecovers ==
    Delivering =>
    \A sender \in Players :
        CapUsedAndWindowElapsed(sender) =>
            /\ sum_rolling_window(StoredRecords(sender), now, 86400)[2] = 0
            /\ \A msg \in Requests[sender] :
                 ReachesLimits(sender, msg) =>
                     \A r \in {Attempt(sender, msg)} :
                         /\ r.err # "PlayerDailyLimitExceeded"
                         /\ r.err = "CooldownActive" <=> Cooling(sender)

\* C15 witness: a player withdrew the full cap, and again the full cap once
\* the first withdrawal was more than 86400 seconds old.
FullCapWithdrawnAgain ==
    /\ last.op = "withdraw" /\ last.err = "ok"
    /\ "player_daily_limit" \notin cap_updates
    /\ \E i, j \in DOMAIN history :
         /\ history[i].player = history[j].player
         /\ history[i].amount_credits = config.player_daily_limit
         /\ history[j].amount_credits = config.player_daily_limit
         /\ history[i].timestamp + 86400 < history[j].timestamp
         /\ history[j].timestamp = now

(* "<unsigned integer>:<suffix>": something follows the first colon, and    *)
(* what precedes it is a decimal numeral.                                    *)
WellFormedNonce(nonce) ==
    /\ Len(nonce) >= 2
    /\ \E n \in NumeralDomain : Head(nonce) = ToString(n)

(* now - 604800, saturating at 0 *)
FreshnessCutoff == IF now >= 604800 THEN now - 604800 ELSE 0

(* The requests of the environment, and one whose nonce is a second younger, *)
(* each also with a signature that cannot be verified.                       *)
ScreenedRequests(sender) ==
    LET sent == Requests[sender] \cup {Honest(sender, NonceLate, 1, 2)}
    IN  sent \cup { [m EXCEPT !.signature = GarbageSignature] : m \in sent }

\* C16: a Withdraw that gets as far as the nonce is rejected with
\* InvalidNonceFormat iff its nonce is not "<unsigned integer>:<suffix>",
\* and a well-formed nonce is rejected with NonceExpired iff its timestamp
\* is < now - 604800 (saturating at 0); both whether or not the nonce has
\* been used and whether or not the signature verifies.
NonceFreshnessScreening ==
    Delivering =>
    \A sender \in Players : \A msg \in ScreenedRequests(sender) :
        \A r \in {Attempt(sender, msg)} :
            r.err \notin ErrorsBefore("InvalidNonceFormat") =>
                /\ r.err = "InvalidNonceFormat" <=> ~WellFormedNonce(msg.nonce)
                /\ WellFormedNonce(msg.nonce) =>
                     (r.err = "NonceExpired"
                          <=> NonceTime(msg.nonce) < FreshnessCutoff)

\* C16 witness: a Withdraw was rejected with NonceExpired 604801 seconds
\* after the timestamp of its nonce, while a used nonce of that age with an
\* unverifiable signature is reported as expired, and a nonce one second
\* younger is not.
ExpiredNonceScreened ==
    /\ last.op = "withdraw" /\ last.err = "NonceExpired"
    /\ now = GENESIS_TIME + 604801
    /\ \E a \in accepted :
         Attempt(a.sender, [a.msg EXCEPT !.signature = GarbageSignature]).err
             = "NonceExpired"
    /\ Attempt("player1", Honest("player1", NonceLate, 1, 2)).err # "NonceExpired"

(* The outcome of a Deposit sent in the current state with the given coins. *)
AttemptDeposit(sender, funds) ==
    execute_deposit(Store, Env(funds), Info(sender, funds))

(* The coins of the environment, 3 tokens (not a multiple of the rate), and *)
(* coins that are wrong in more than one respect.                            *)
DepositFunds ==
    FundsSent \cup { << Coin(DENOM, 3) >>, << Coin("uatom", 1) >>,
                     << Coin("uatom", 1), Coin("uatom", 1) >> }

(* What the claim says of a Deposit with these coins. *)
DepositVerdict(funds) ==
    IF funds = << >> THEN "NoFundsSent"
    ELSE IF Len(funds) > 1 THEN "MultipleDenomsSent"
    ELSE IF funds[1].denom # config.denom THEN "WrongDenom"
    ELSE IF ~(funds[1].amount >= config.min_deposit) THEN "DepositBelowMinimum"
    ELSE "ok"

\* C17: on a contract that is not paused a Deposit succeeds iff exactly one
\* coin of the configured denomination with amount >= min_deposit is
\* attached, and otherwise fails with NoFundsSent, MultipleDenomsSent,
\* WrongDenom or DepositBelowMinimum, the first that applies in that order;
\* a successful Deposit reports credit_amount =
\* floor(tokens * rate_credits / rate_tokens), emits no message and changes
\* nothing in storage except that the peak balance is raised to the balance
\* it observes; a failed one changes nothing.
DepositValidation ==
    (Delivering /\ ~config.paused) =>
    /\ (last.op = "deposit" => last.msgs = << >>)
    /\ \A sender \in Players : \A funds \in DepositFunds :
         \A r \in {AttemptDeposit(sender, funds)} :
            /\ r.err = DepositVerdict(funds)
            /\ r.msgs = << >>
            /\ r.err # "ok" => r.st = Store
            /\ r.err = "ok" =>
                 /\ r.attrs.token_amount = funds[1].amount
                 /\ r.attrs.credit_amount
                        = (funds[1].amount * config.rate_credits) \div config.rate_tokens
                 /\ r.st = [Store EXCEPT !.peak_balance =
                               IF balance + funds[1].amount > peak_balance
                               THEN balance + funds[1].amount ELSE peak_balance]

\* C17 witness: a Deposit has succeeded, and a further Deposit of exactly
\* min_deposit is accepted while one of a token less is DepositBelowMinimum.
DepositedAndMinimumAccepted ==
    /\ last.op = "deposit" /\ last.err = "ok"
    /\ config.min_deposit > 1
    /\ AttemptDeposit("player1", << Coin(DENOM, config.min_deposit) >>).err = "ok"
    /\ AttemptDeposit("player1", << Coin(DENOM, config.min_deposit - 1) >>).err
           = "DepositBelowMinimum"

(* The outcome of a Withdraw sent in the current state with the given coins. *)
AttemptWith(sender, msg, funds) ==
    execute_withdraw(Store, Env(funds), Info(sender, funds), msg)

\* C18 as stated: while the contract is paused every Deposit and every
\* Withdraw, whatever is attached to it, fails with Paused.
PausedRejectsAllWithPaused ==
    (Delivering /\ config.paused) =>
    \A sender \in Players :
        /\ \A funds \in DepositFunds : AttemptDeposit(sender, funds).err = "Paused"
        /\ \A msg \in Requests[sender] : \A funds \in {<< >>, << Coin(DENOM, 1) >>} :
               AttemptWith(sender, msg, funds).err = "Paused"

(* In a paused state every Deposit fails with Paused, every Withdraw without *)
(* coins fails with Paused and every Withdraw with coins with                *)
(* UnexpectedFunds, and none of them changes the state.                      *)
PausedRejects ==
    (Delivering /\ config.paused) =>
    \A sender \in Players :
        /\ \A funds \in DepositFunds :
             \A r \in {AttemptDeposit(sender, funds)} :
                 r.err = "Paused" /\ r.st = Store /\ r.msgs = << >>
        /\ \A msg \in Requests[sender] : \A funds \in {<< >>, << Coin(DENOM, 1) >>} :
             \A r \in {AttemptWith(sender, msg, funds)} :
                 /\ r.err = IF funds = << >> THEN "Paused" ELSE "UnexpectedFunds"
                 /\ r.st = Store /\ r.msgs = << >>

(* In a state that is not paused no Deposit and no Withdraw fails with      *)
(* Paused: each has the outcome that the other checks give it.               *)
UnpausedProcesses ==
    (Delivering /\ ~config.paused) =>
    \A sender \in Players :
        /\ \A funds \in DepositFunds :
             AttemptDeposit(sender, funds).err = DepositVerdict(funds)
        /\ \A msg \in Requests[sender] :
             \A r \in {Attempt(sender, msg)} :
                 /\ r.err # "Paused"
                 /\ Screened(msg) => r.err \in EarliestViolation(Pipeline(sender, msg))

(* Pause and Unpause write the paused flag and nothing else. *)
PauseWritesFlagOnly ==
    (last'.err = "ok" /\ last'.op \in {"pause", "unpause"}) =>
        /\ config' = [config EXCEPT !.paused = (last'.op = "pause")]
        /\ UNCHANGED << pending_oracle, pending_owner, used_nonces, player_wd,
                        player_last_wd, global_wd, peak_balance, global_wd_map,
                        global_wd_counter, global_wd_oldest, contract_info,
                        balance, now >>

\* C18 amended: while the contract is paused every Deposit fails with
\* Paused, every Withdraw without funds fails with Paused even if it is
\* otherwise valid, every Withdraw with funds attached fails with
\* UnexpectedFunds, and none changes the state; Pause and Unpause change the
\* paused flag only, so that after Unpause the same requests are processed
\* as the other checks decide.
PauseGate ==
    /\ []PausedRejects
    /\ []UnpausedProcesses
    /\ [][PauseWritesFlagOnly]_vars

\* C18 witness: a Withdraw was rejected with Paused although some request
\* would be paid were the contract not paused.
ValidWithdrawRejectedWhilePaused ==
    /\ last.op = "withdraw" /\ last.err = "Paused"
    /\ config.paused
    /\ \E sender \in Players : \E msg \in Requests[sender] :
         /\ AttemptWith(sender, msg, << >>).err = "Paused"
         /\ execute_withdraw([Store EXCEPT !.config.paused = FALSE], Env(<< >>),
                             Info(sender, << >>), msg).err = "ok"

(* A Deposit or FundTreasury has just succeeded.  It sends nothing, so the  *)
(* balance it observed, coins attached included, is the balance after it.   *)
PaidInto == last'.err = "ok" /\ last'.op \in {"deposit", "fund_treasury"}

\* C19: no operation lowers the stored peak balance, and a successful
\* Deposit or FundTreasury leaves it >= the balance observed in that
\* invocation: it is the observed balance if that exceeds the peak stored
\* before, and the peak stored before otherwise.
PeakRatchet ==
    [][ /\ peak_balance' >= peak_balance
        /\ PaidInto =>
             /\ peak_balance' >= balance'
             /\ peak_balance' = IF balance' > peak_balance
                                THEN balance' ELSE peak_balance
        /\ ~PaidInto => peak_balance' = peak_balance ]_vars

\* C19 witness: a Deposit or FundTreasury has succeeded with a balance
\* below the peak reached earlier, which is kept.
PaidInBelowPeak ==
    /\ last.err = "ok" /\ last.op \in {"deposit", "fund_treasury"}
    /\ 0 < balance /\ balance < peak_balance

OwnerOnly ==
    { "withdraw_treasury", "fund_treasury", "propose_oracle",
      "cancel_oracle_transfer", "update_rate", "update_fee", "update_limits",
      "pause", "unpause", "propose_owner", "cancel_owner_transfer" }

(* The outcomes of an owner-only message sent in the current state, one for *)
(* each argument tried.                                                      *)
AttemptOwnerOnly(op, sender, funds) ==
    LET info == Info(sender, funds)
    IN  CASE op = "withdraw_treasury" ->
               { execute_withdraw_treasury(Store, Env(funds), info, 1) }
          [] op = "fund_treasury" -> { execute_fund_treasury(Store, Env(funds), info) }
          [] op = "propose_oracle" ->
               { execute_propose_oracle(Store, info, NEW_ORACLE, Key2) }
          [] op = "cancel_oracle_transfer" ->
               { execute_cancel_oracle_transfer(Store, info) }
          [] op = "update_rate" -> { execute_update_rate(Store, info, 2, 3) }
          [] op = "update_fee" -> { execute_update_fee(Store, info, 0) }
          [] op = "update_limits" ->
               { execute_update_limits(Store, info, o[1], o[2], o[3], o[4], o[5]) :
                     o \in LimitOverrides }
          [] op = "pause" -> { execute_pause(Store, info) }
          [] op = "unpause" -> { execute_unpause(Store, info) }
          [] op = "propose_owner" -> { execute_propose_owner(Store, info, NEW_OWNER) }
          [] op = "cancel_owner_transfer" ->
               { execute_cancel_owner_transfer(Store, info) }

Senders == {OWNER, NEW_OWNER, NEW_ORACLE, "player1"}

\* C20 as stated: each owner-only operation fails with Unauthorized and
\* changes nothing whenever the sender is not the owner stored in config.
NonOwnerAlwaysUnauthorized ==
    Delivering =>
    \A op \in OwnerOnly : \A sender \in Senders \ {config.owner} :
        \A funds \in {<< >>, << Coin(DENOM, 1) >>} :
            \A r \in AttemptOwnerOnly(op, sender, funds) :
                r.err = "Unauthorized" /\ r.st = Store

\* C20 amended: each owner-only operation sent by anyone but the owner
\* stored in config fails and changes nothing, with Unauthorized, except
\* that the operations other than FundTreasury fail with UnexpectedFunds
\* when coins are attached; sent by the stored owner none fails with
\* Unauthorized; a successful AcceptOwner stores the proposed owner, so the
\* previous owner is then rejected and the new one accepted.
OwnerGating ==
    Delivering =>
    /\ (last.op = "accept_owner" =>
            config.owner = NEW_OWNER /\ pending_owner = None)
    /\ \A op \in OwnerOnly : \A sender \in Senders :
         \A funds \in {<< >>, << Coin(DENOM, 1) >>} :
            \A r \in AttemptOwnerOnly(op, sender, funds) :
                IF sender = config.owner
                THEN r.err # "Unauthorized"
                ELSE /\ r.err = IF funds # << >> /\ op # "fund_treasury"
                                THEN "UnexpectedFunds" ELSE "Unauthorized"
                     /\ r.st = Store
                     /\ r.msgs = << >>

\* C20 witness: AcceptOwner has succeeded; the previous owner can no longer
\* pause the contract or draw on the treasury, and the new owner can.
OwnershipHandedOver ==
    /\ last.op = "accept_owner" /\ last.err = "ok"
    /\ config.owner = NEW_OWNER
    /\ \A op \in {"pause", "withdraw_treasury"} :
         /\ \A r \in AttemptOwnerOnly(op, OWNER, << >>) : r.err = "Unauthorized"
         /\ \A r \in AttemptOwnerOnly(op, NEW_OWNER, << >>) : r.err = "ok"

(* The response to the latest query, if it was a conversion of credits that *)
(* did not fail.                                                             *)
Converted == answer.query = "convert_credits_to_tokens" /\ answer.response.err = "ok"

(* floor(credits * rate_tokens / rate_credits), as a number *)
ExactGross(credits) == (credits * config.rate_tokens) \div config.rate_credits

\* C21: the fee is floor(gross * fee_bps / 10000) and the net amount is
\* gross - fee; fee_bps = 50 gives fee 5000 on gross 1000000 and fee 0 on
\* gross 100; and for every fee_bps in 0..10000 the fee is <= gross.
FeeExact ==
    /\ calculate_fee(1000000, 50) = Some(5000)
    /\ calculate_fee(100, 50) = Some(0)
    /\ Converted =>
         LET gross == ExactGross(answer.arg)
             r == answer.response
         IN  /\ r.fee_amount = (gross * config.fee_bps) \div 10000
             /\ r.token_amount = gross - r.fee_amount
             /\ r.fee_amount <= gross
             /\ \A fee_bps \in 0..10000 :
                  \A fee \in {calculate_fee(gross, fee_bps)} :
                      IsSome(fee) => Unwrap(fee) <= gross

\* C21 witness: at fee_bps = 50, 1000000 credits at 1:1 were converted to
\* net 995000 with fee 5000.
ConvertedAtHalfPercent ==
    /\ Converted
    /\ config.fee_bps = 50
    /\ ExactGross(answer.arg) = 1000000
    /\ answer.response.fee_amount = 5000
    /\ answer.response.token_amount = 995000

(* floor(a * b / c) for c # 0 as a product that no width limits would give  *)
(* it: None if the quotient itself does not fit Uint128.                     *)
WideMulDiv(a, b, c) ==
    IF b = 0 THEN Some(0)
    ELSE IF a \div c > Uint128Max \div b THEN None
    ELSE LET v == (a \div c) * b + ((a % c) * b) \div c
         IN  IF v > Uint128Max THEN None ELSE Some(v)

\* C22: creditsToTokens and tokensToCredits form the product in a type wider
\* than Uint128, so each returns floor(amount * numerator / denominator)
\* whenever that quotient fits Uint128, and Overflow only otherwise.
ConversionUsesWideIntermediate ==
    /\ answer.query = "convert_credits_to_tokens" =>
         credits_to_tokens(answer.arg, config)
             = WideMulDiv(answer.arg, config.rate_tokens, config.rate_credits)
    /\ answer.query = "convert_tokens_to_credits" =>
         tokens_to_credits(answer.arg, config)
             = WideMulDiv(answer.arg, config.rate_credits, config.rate_tokens)

\* C23: under the config of the state, creditsToTokens is non-decreasing in
\* credits wherever it does not fail: no smaller amount converts to more
\* than the amount of the latest query, and the response to that query is
\* the conversion of its argument.
ConversionMonotonic ==
    answer.query = "convert_credits_to_tokens" =>
        \A hi \in {credits_to_tokens(answer.arg, config)} :
            /\ answer.response.err = "ok" =>
                 answer.response.token_amount + answer.response.fee_amount
                     = Unwrap(hi)
            /\ \A c1 \in ConvertAmounts :
                 \A lo \in {credits_to_tokens(c1, config)} :
                     (c1 <= answer.arg /\ IsSome(lo) /\ IsSome(hi))
                         => Unwrap(lo) <= Unwrap(hi)

\* C23 witness: at 3 credits for 2 tokens, 1 credit was converted to 0
\* tokens, as 0 credits are, and 2 credits convert to 1 token.
ConvertedWithFlooring ==
    /\ Converted
    /\ config.rate_credits = 3 /\ config.rate_tokens = 2
    /\ answer.arg = 1
    /\ answer.response.token_amount + answer.response.fee_amount = 0
    /\ credits_to_tokens(0, config) = Some(0)
    /\ credits_to_tokens(2, config) = Some(1)

\* C24: in the withdrawal and rate-limiter paths no arithmetic wraps,
\* saturates or ends otherwise than with the Overflow error: the usage that
\* each cap check computes is the exact sum of the withdrawals in the
\* window, a request whose conversion product or whose addition to a usage
\* exceeds Uint128 is never accepted, a request whose conversion product
\* exceeds Uint128 fails with Overflow, and no request ends in a panic.
NoSilentOverflow ==
    Delivering =>
    \A sender \in Players :
        /\ sum_rolling_window(StoredRecords(sender), now, 86400)[2] = PlayerUsage(sender)
        /\ global_window_sum(Store, now) = GlobalUsage
        /\ \A msg \in LargeRequests(sender) :
             \A r \in {Attempt(sender, msg)} :
                /\ r.err # "Panic"
                /\ r.err = "ok" =>
                     /\ msg.credit_amount * config.rate_tokens <= Uint128Max
                     /\ PlayerUsage(sender) <= Uint128Max - msg.credit_amount
                     /\ GlobalUsage <= Uint128Max - msg.credit_amount
                /\ (msg.credit_amount * config.rate_tokens > Uint128Max
                      /\ ~UsedNonce(msg) /\ ~StaleNonce(msg))
                     => r.err = "Overflow"

(* Instantiate messages with a zero ratio component or a fee above the cap, *)
(* and the same for UpdateRate and UpdateFee.                                *)
ZeroRates == { << 0, 0 >>, << 0, 1 >>, << 1, 0 >>, << 0, 2 >>, << 3, 0 >> }
ExcessFees == { MAX_FEE_BPS + 1, MAX_FEE_BPS + 2, 65535 }

InvalidConfigs ==
    { [InstantiateMsg EXCEPT !.rate_credits = r[1], !.rate_tokens = r[2]] :
          r \in ZeroRates }
    \cup { [InstantiateMsg EXCEPT !.fee_bps = f] : f \in ExcessFees }

\* C25: in every reachable state rate_credits and rate_tokens are not zero
\* and fee_bps is at most 10000; Instantiate with a zero ratio component or
\* a fee above 10000 is rejected and stores no config, and UpdateRate with a
\* zero ratio component and UpdateFee with a fee above 10000, sent by the
\* owner without funds, are rejected and leave the stored state as it was.
ConfigInvariant ==
    /\ config.rate_credits # 0
    /\ config.rate_tokens # 0
    /\ config.fee_bps <= 10000
    /\ \A msg \in InvalidConfigs :
          /\ instantiate(msg).err \in {"ZeroAmount", "Overflow"}
          /\ instantiate(msg).st = EmptyStore
    /\ Delivering =>
          /\ \A r \in ZeroRates :
                \A out \in {execute_update_rate(Store, Info(config.owner, << >>), r[1], r[2])} :
                    out.err = "ZeroAmount" /\ out.st = Store
          /\ \A f \in ExcessFees :
                \A out \in {execute_update_fee(Store, Info(config.owner, << >>), f)} :
                    out.err = "Overflow" /\ out.st = Store

(* The owner changed the rate, and the fee above the cap that followed was *)
(* rejected.                                                                *)
RateUpdatedAndExcessFeeRejected ==
    /\ last.op = "update_fee" /\ last.err = "Overflow"
    /\ config.rate_credits = 2 /\ config.rate_tokens = 3
    /\ config.fee_bps = InstantiateMsg.fee_bps

(* Public keys of lengths that are neither 33 nor 65. *)
InvalidKeys == { [id |-> "k3", len |-> n] : n \in {0, 32, 34, 64, 66} }

ValidKeyLength(pubkey) == pubkey.len = 33 \/ pubkey.len = 65

HandoverSenders == Senders \cup {ORACLE}
HandoverFunds == { << >>, << Coin(DENOM, 1) >> }

(* The storage after the pending oracle transfer is accepted. *)
OracleInstalled ==
    [Store EXCEPT !.config.oracle = Unwrap(pending_oracle).proposed_oracle,
                  !.config.oracle_pubkey = Unwrap(pending_oracle).proposed_pubkey,
                  !.pending_oracle = None]

(* ProposeOracle, whatever its outcome, leaves config as it is. *)
ProposeOracleKeepsConfig ==
    \A sender \in HandoverSenders : \A funds \in HandoverFunds :
        \A k \in {Key1, Key2, ShortKey} :
            \A out \in {execute_propose_oracle(Store, Info(sender, funds), NEW_ORACLE, k)} :
                /\ out.st.config = config
                /\ out.err = "ok" =>
                     out.st = [Store EXCEPT !.pending_oracle =
                                  Some([proposed_oracle |-> NEW_ORACLE,
                                        proposed_pubkey |-> k])]

\* C27 as stated: while a transfer is pending, AcceptOracle from any address
\* other than the proposed one fails with NotPendingOracle and changes
\* nothing, AcceptOracle from the proposed address installs the proposed
\* oracle and key and clears the pending record, and ProposeOracle leaves
\* config.oracle and config.oracle_pubkey unchanged.
OracleHandoverWhoeverPays ==
    Delivering =>
    /\ ProposeOracleKeepsConfig
    /\ IsSome(pending_oracle) =>
         \A sender \in HandoverSenders : \A funds \in HandoverFunds :
             \A out \in {execute_accept_oracle(Store, Info(sender, funds))} :
                 IF sender = Unwrap(pending_oracle).proposed_oracle
                 THEN out.err = "ok" /\ out.st = OracleInstalled
                 ELSE out.err = "NotPendingOracle" /\ out.st = Store

\* C27: while a transfer is pending, AcceptOracle with funds attached fails
\* with UnexpectedFunds and changes nothing, whoever sends it; without funds,
\* AcceptOracle from any address other than the proposed one fails with
\* NotPendingOracle and changes nothing, and AcceptOracle from the proposed
\* address installs the proposed oracle and key and clears the pending
\* record; ProposeOracle leaves config.oracle and config.oracle_pubkey
\* unchanged.
OracleHandover ==
    Delivering =>
    /\ ProposeOracleKeepsConfig
    /\ IsSome(pending_oracle) =>
         \A sender \in HandoverSenders : \A funds \in HandoverFunds :
             \A out \in {execute_accept_oracle(Store, Info(sender, funds))} :
                 IF funds # << >>
                 THEN out.err = "UnexpectedFunds" /\ out.st = Store
                 ELSE IF sender = Unwrap(pending_oracle).proposed_oracle
                 THEN out.err = "ok" /\ out.st = OracleInstalled
                 ELSE out.err = "NotPendingOracle" /\ out.st = Store

(* The proposed oracle accepted: it is the oracle and nothing is pending. *)
OracleHandedOver ==
    /\ last.op = "accept_oracle" /\ last.err = "ok"
    /\ config.oracle = NEW_ORACLE
    /\ pending_oracle = None

(* The outcome of a cancel message sent without funds in the current state. *)
CancelOracleBy(sender) == execute_cancel_oracle_transfer(Store, Info(sender, << >>))
CancelOwnerBy(sender) == execute_cancel_owner_transfer(Store, Info(sender, << >>))

\* C28 as stated: while an oracle or owner transfer is pending, the current
\* owner and the proposed address can each cancel it, after which nothing is
\* pending and the oracle and the owner are as before.
EitherPartyCancels ==
    Delivering =>
    /\ IsSome(pending_oracle) =>
         \A sender \in {config.owner, Unwrap(pending_oracle).proposed_oracle} :
             /\ CancelOracleBy(sender).err = "ok"
             /\ CancelOracleBy(sender).st = [Store EXCEPT !.pending_oracle = None]
    /\ IsSome(pending_owner) =>
         \A sender \in {config.owner, Unwrap(pending_owner).proposed_owner} :
             /\ CancelOwnerBy(sender).err = "ok"
             /\ CancelOwnerBy(sender).st = [Store EXCEPT !.pending_owner = None]

\* C28: while an oracle or owner transfer is pending, the current owner can
\* cancel it with a message without funds, after which nothing is pending
\* and the oracle, the owner and everything else are as before; the same
\* message from any other address, the proposed one included, fails with
\* Unauthorized and changes nothing.
OwnerCancels ==
    Delivering =>
    /\ IsSome(pending_oracle) =>
         \A sender \in HandoverSenders :
             IF sender = config.owner
             THEN /\ CancelOracleBy(sender).err = "ok"
                  /\ CancelOracleBy(sender).st = [Store EXCEPT !.pending_oracle = None]
             ELSE /\ CancelOracleBy(sender).err = "Unauthorized"
                  /\ CancelOracleBy(sender).st = Store
    /\ IsSome(pending_owner) =>
         \A sender \in HandoverSenders :
             IF sender = config.owner
             THEN /\ CancelOwnerBy(sender).err = "ok"
                  /\ CancelOwnerBy(sender).st = [Store EXCEPT !.pending_owner = None]
             ELSE /\ CancelOwnerBy(sender).err = "Unauthorized"
                  /\ CancelOwnerBy(sender).st = Store

(* The owner proposed an oracle and cancelled the transfer. *)
OracleTransferCancelled ==
    /\ last.op = "cancel_oracle_transfer" /\ last.err = "ok"
    /\ pending_oracle = None
    /\ config.oracle = ORACLE /\ config.oracle_pubkey = Key1

(* The fields that UpdateLimits can override, in the order of its          *)
(* arguments, and every choice of which of them an override is given for.   *)
LimitFields ==
    << "player_daily_limit", "global_daily_limit", "cooldown_seconds",
       "min_deposit", "min_reserve" >>

FrameOverrides ==
    { << a, b, c, d, e >> : a \in {None, Some(4)}, b \in {None, Some(5)},
                            c \in {None, Some(0)}, d \in {None, Some(1)},
                            e \in {None, Some(3)} }

\* C30: an UpdateLimits sent by the owner without funds succeeds without
\* bank messages, sets each of player_daily_limit, global_daily_limit,
\* cooldown_seconds, min_deposit and min_reserve for which an override is
\* supplied to that override, and leaves every field given as None, every
\* other config field and all state outside config unchanged.
UpdateLimitsFrame ==
    Delivering =>
    \A o \in FrameOverrides :
        \A out \in {execute_update_limits(Store, Info(config.owner, << >>),
                                          o[1], o[2], o[3], o[4], o[5])} :
            /\ out.err = "ok" /\ out.msgs = << >>
            /\ \A i \in 1..5 :
                  out.st.config[LimitFields[i]] =
                      IF IsSome(o[i]) THEN Unwrap(o[i]) ELSE config[LimitFields[i]]
            /\ \A f \in DOMAIN config :
                  (\A i \in 1..5 : f # LimitFields[i]) => out.st.config[f] = config[f]
            /\ DOMAIN out.st.config = DOMAIN config
            /\ \A f \in DOMAIN Store : f # "config" => out.st[f] = Store[f]

(* The owner overrode min_deposit and min_reserve and nothing else. *)
MinimumsOverridden ==
    /\ last.op = "update_limits" /\ last.err = "ok"
    /\ config.min_deposit = 1 /\ config.min_reserve = 2
    /\ config.player_daily_limit = InstantiateMsg.player_daily_limit
    /\ config.global_daily_limit = InstantiateMsg.global_daily_limit
    /\ config.cooldown_seconds = InstantiateMsg.cooldown_seconds

(* The storage holds the layout of this version: no legacy vector, both    *)
(* counters, and the version of this build.                                 *)
Migrated ==
    /\ IsNone(global_wd)
    /\ IsSome(global_wd_counter) /\ IsSome(global_wd_oldest)
    /\ contract_info = set_contract_version(CONTRACT_NAME, CONTRACT_VERSION)

\* C29: migrate succeeds from every state, and running it twice yields the
\* same persistent state as running it once; on an already-migrated state it
\* changes nothing; when the legacy vector is present with n records, they
\* are stored under ids 1..n in their original order with counter = n, the
\* cursor is 1 and the legacy vector is gone; without legacy vector an
\* absent counter or cursor becomes 0 and a present one is kept.
MigrateIdempotent ==
    Delivering =>
    \A once \in {migrate(Store)} :
        /\ once.err = "ok" /\ once.msgs = << >>
        /\ migrate(once.st).err = "ok"
        /\ migrate(once.st).st = once.st
        /\ Migrated => once.st = Store
        /\ \A f \in DOMAIN Store :
              f \notin {"global_wd", "global_wd_map", "global_wd_counter",
                        "global_wd_oldest", "contract_info"}
                  => once.st[f] = Store[f]
        /\ IsSome(global_wd) =>
              LET n == Len(Unwrap(global_wd))
              IN  /\ once.st.global_wd_counter = Some(n)
                  /\ once.st.global_wd_oldest = Some(1)
                  /\ once.st.global_wd = None
                  /\ \A i \in 1..n : once.st.global_wd_map[i] = Unwrap(global_wd)[i]
                  /\ DOMAIN once.st.global_wd_map = DOMAIN global_wd_map \cup 1..n
        /\ IsNone(global_wd) =>
              /\ once.st.global_wd_map = global_wd_map
              /\ once.st.global_wd_counter = Some(unwrap_or(global_wd_counter, 0))
              /\ once.st.global_wd_oldest = Some(unwrap_or(global_wd_oldest, 0))

(* A legacy vector of two records was migrated, and migrate ran again. *)
MigratedTwice ==
    /\ last.op = "migrate" /\ last.err = "ok"
    /\ budget.ops = 0
    /\ contract_info = set_contract_version(CONTRACT_NAME, CONTRACT_VERSION)
    /\ global_wd = None
    /\ global_wd_counter = Some(2) /\ global_wd_oldest = Some(1)
    /\ DOMAIN global_wd_map = 1..2
    /\ player_wd["player2"] = << global_wd_map[1], global_wd_map[2] >>

(* The usage of p that the stored records give at the current block time. *)
StoredUsage(p) ==
    SumCredits(SelectSeq(StoredRecords(p),
                         LAMBDA r : r.timestamp >= now - 86400))

(* The outcome of the player-cap gate for c credits, the cooldown apart. *)
PlayerCapGate(p, c) ==
    check_player_limits(Store, Env(<< >>), p, c, [config EXCEPT !.cooldown_seconds = 0])

(* The credit amounts that the gate is tried with. *)
GateCredits == 1..(config.player_daily_limit + 2) \cup {Uint128Max}

\* C31: the PlayerInfo query answers unless the end of the cooldown lies
\* beyond the range of Timestamp, and its answer agrees with the withdrawal
\* gate: withdrawals_24h is the sum of the player's stored records, and of
\* the player's successful withdrawals, with timestamp >= now - 86400,
\* remaining_limit is player_daily_limit - withdrawals_24h (0 if the usage
\* exceeds the limit), cooldown_until is the last withdrawal time plus
\* cooldown_seconds (absent if the player never withdrew), and at the same
\* block time c credits pass the player-cap gate iff c <= remaining_limit.
PlayerInfoAgrees ==
    Delivering =>
    \A p \in Players :
        \A r \in {query_player_info(Store, Env(<< >>), p)} :
            /\ r.err \in {"ok", "Panic"}
            /\ r.err = "Panic" <=>
                  /\ p \in DOMAIN player_last_wd
                  /\ config.cooldown_seconds > TimestampMaxSeconds - player_last_wd[p]
            /\ r.err = "ok" =>
                  /\ r.withdrawals_24h = StoredUsage(p)
                  /\ r.withdrawals_24h = PlayerUsage(p)
                  /\ r.daily_limit = config.player_daily_limit
                  /\ r.remaining_limit =
                        IF r.withdrawals_24h > config.player_daily_limit THEN 0
                        ELSE config.player_daily_limit - r.withdrawals_24h
                  /\ r.cooldown_until =
                        IF p \in DOMAIN player_last_wd
                        THEN Some(player_last_wd[p] + config.cooldown_seconds)
                        ELSE None
                  /\ \A c \in GateCredits :
                        PlayerCapGate(p, c) = "ok" <=> c <= r.remaining_limit
                  /\ \A msg \in Requests[p] :
                        /\ Attempt(p, msg).err = "ok"
                              => msg.credit_amount <= r.remaining_limit
                        /\ Attempt(p, msg).err = "PlayerDailyLimitExceeded"
                              => msg.credit_amount > r.remaining_limit

(* The query answered for a player who withdrew twice, once before the     *)
(* window: part of the cap is used and the cooldown is recorded.            *)
PlayerInfoAnswered ==
    /\ answer.query = "player_info" /\ answer.response.err = "ok"
    /\ answer.response = query_player_info(Store, Env(<< >>), answer.arg)
    /\ answer.response.withdrawals_24h = 1
    /\ answer.response.remaining_limit = config.player_daily_limit - 1
    /\ answer.response.cooldown_until = Some(now + config.cooldown_seconds)
    /\ Len(SelectSeq(history, LAMBDA h : h.player = answer.arg)) = 2

\* C32: in every reachable state, after migrate from any legacy state
\* included, the cursor of the global ledger is at most its counter (an
\* absent item reads as 0).
CursorWithinCounter ==
    unwrap_or(global_wd_oldest, 0) <= unwrap_or(global_wd_counter, 0)

(* The global ledger is kept in the map: no legacy vector, both counters. *)
LedgerInMap ==
    IsNone(global_wd) /\ IsSome(global_wd_counter) /\ IsSome(global_wd_oldest)

Stale(record) == record.timestamp < now - 86400

(* No record lies below the cursor or above the counter, and every         *)
(* successful withdrawal and every stored player record of the last 86400  *)
(* seconds is in the ledger.                                                *)
LedgerKeepsActive ==
    (Delivering /\ LedgerInMap) =>
    /\ \A id \in DOMAIN global_wd_map :
          Unwrap(global_wd_oldest) <= id /\ id <= Unwrap(global_wd_counter)
    /\ \A i \in DOMAIN history :
          ~Stale(history[i]) =>
              \E id \in DOMAIN global_wd_map : global_wd_map[id] = RecordOf(history[i])
    /\ \A p \in Players : \A k \in DOMAIN StoredRecords(p) :
          ~Stale(StoredRecords(p)[k]) =>
              \E id \in DOMAIN global_wd_map : global_wd_map[id] = StoredRecords(p)[k]

(* A step removes only records that are stale at that time, changes none,  *)
(* and moves the cursor only forward, past ids that it leaves empty.        *)
PruningStep ==
    /\ \A id \in DOMAIN global_wd_map :
          IF id \in DOMAIN global_wd_map'
          THEN global_wd_map'[id] = global_wd_map[id]
          ELSE Stale(global_wd_map[id]) /\ last'.op = "withdraw"
    /\ (IsSome(global_wd_oldest) /\ IsSome(global_wd_oldest')) =>
          /\ Unwrap(global_wd_oldest) <= Unwrap(global_wd_oldest')
          /\ \A id \in Unwrap(global_wd_oldest)..(Unwrap(global_wd_oldest') - 1) :
                /\ id \notin DOMAIN global_wd_map'
                /\ id \in DOMAIN global_wd_map => Stale(global_wd_map[id])

\* C33: the global pruning cursor never skips or deletes a record that is
\* still in the window: a global record is removed only when its timestamp
\* is < now - 86400 at that time, the cursor advances only past ids that
\* were just removed as stale or were already missing, and in every state
\* no record is stored under an id below the cursor and every successful
\* withdrawal with timestamp >= now - 86400 is stored under an id in
\* [oldest, counter].
GlobalPruningSound == []LedgerKeepsActive /\ [][PruningStep]_vars

(* A withdrawal removed expired records and the cursor stopped at a record *)
(* of the window, below the counter.                                        *)
CursorStoppedAtActiveRecord ==
    /\ last.op = "withdraw" /\ last.err = "ok"
    /\ LedgerInMap
    /\ Unwrap(global_wd_oldest) >= 2
    /\ Unwrap(global_wd_oldest) < Unwrap(global_wd_counter)
    /\ Unwrap(global_wd_oldest) \in DOMAIN global_wd_map
    /\ ~Stale(global_wd_map[Unwrap(global_wd_oldest)])

(* What one step does to the global ledger. *)
BoundedPruningStep ==
    IF last'.op = "withdraw" /\ last'.err = "ok"
    THEN /\ global_wd_counter' = Some(Unwrap(global_wd_counter) + 1)
         /\ DOMAIN global_wd_map' \ DOMAIN global_wd_map
                = {Unwrap(global_wd_counter) + 1}
         /\ global_wd_map'[Unwrap(global_wd_counter')].timestamp = now
         /\ Cardinality(DOMAIN global_wd_map \ DOMAIN global_wd_map') <= 10
         /\ Unwrap(global_wd_oldest') - Unwrap(global_wd_oldest) <= 10
         /\ Unwrap(global_wd_oldest') >= Unwrap(global_wd_oldest)
    ELSE /\ DOMAIN global_wd_map \subseteq DOMAIN global_wd_map'
         /\ IsSome(global_wd_counter) =>
               /\ global_wd_counter' = global_wd_counter
               /\ global_wd_map' = global_wd_map
               /\ IsSome(global_wd_oldest) => global_wd_oldest' = global_wd_oldest

\* C34: a successful Withdraw appends exactly one global record, under id
\* counter + 1, removes at most 10 global records and advances the cursor
\* by at most 10 positions, however many expired records are pending; a
\* failed Withdraw and every other operation remove none and leave counter
\* and cursor as they are, so that ids increase and are never used again.
BoundedPruning == [][BoundedPruningStep]_vars

(* A withdrawal removed ten expired records and left expired ones behind. *)
BatchExhausted ==
    /\ last.op = "withdraw" /\ last.err = "ok"
    /\ LedgerInMap
    /\ Unwrap(global_wd_oldest) = 11
    /\ 11 \in DOMAIN global_wd_map /\ Stale(global_wd_map[11])
    /\ \A id \in 1..10 : id \notin DOMAIN global_wd_map
    /\ Len(history) = 1

(* The storage after k further successful withdrawals of 1 credit by       *)
(* player1 at block time t: the writes of execute_withdraw, k times.        *)
RECURSIVE AfterWithdrawals(_, _, _)
AfterWithdrawals(st, k, t) ==
    IF k = 0 THEN st
    ELSE AfterWithdrawals(
             withdraw_effects(st, [Env(<< >>) EXCEPT !.time = t],
                              Info("player1", << >>), Honest("player1", NonceA, 1, 2)),
             k - 1, t)

(* The ids between the cursor and the counter, both included. *)
UnprunedIds == Unwrap(global_wd_oldest)..Unwrap(global_wd_counter)

CeilDiv(a, b) == (a + b - 1) \div b

\* C35: with h ids between the cursor and the counter, every global record
\* that is stale now is removed from storage by the next ceil(h / 10)
\* successful withdrawals, whether they come at once or after the block
\* time has advanced.
StaleRemovedWithinBound ==
    (Delivering /\ LedgerInMap) =>
    \A t \in {now, now + 1} :
        \A after \in {AfterWithdrawals(Store, CeilDiv(Cardinality(UnprunedIds), 10), t)} :
            \A id \in DOMAIN global_wd_map :
                Stale(global_wd_map[id]) => id \notin DOMAIN after.global_wd_map

(* Two withdrawals removed the twelve expired records of a ledger of       *)
(* thirteen: ten the first, two the second.                                 *)
TwoBatchesPruned ==
    /\ last.op = "withdraw" /\ last.err = "ok"
    /\ LedgerInMap
    /\ Len(history) = 2
    /\ Unwrap(global_wd_oldest) = 13
    /\ DOMAIN global_wd_map = 13..15
    /\ \A id \in DOMAIN global_wd_map : ~Stale(global_wd_map[id])

(* What one step does to the stored sequence of each player. *)
PlayerHistoryStep ==
    \A p \in Players :
        LET stored == IF p \in DOMAIN player_wd' THEN player_wd'[p] ELSE << >>
        IN  IF last'.op = "withdraw" /\ last'.err = "ok"
               /\ history'[Len(history')].player = p
            THEN stored =
                   Append(SelectSeq(StoredRecords(p),
                                    LAMBDA r : r.timestamp >= now - 86400),
                          [amount_credits |-> history'[Len(history')].amount_credits,
                           timestamp |-> now])
            ELSE stored = StoredRecords(p)

\* C36: right after a successful Withdraw by player p at time now, p's
\* stored sequence is the previously stored records with timestamp >=
\* now - 86400, in their order, followed by the new record; every other
\* step, a Withdraw of another player included, leaves p's sequence as it
\* is, so that no stored record is modified and records are removed only by
\* this pruning.
PlayerHistoryBounded == [][PlayerHistoryStep]_vars

(* player2 withdrew with expired records and one record of the window      *)
(* stored: the expired ones are gone, the other is kept before the new one. *)
ExpiredPlayerRecordsPruned ==
    /\ last.op = "withdraw" /\ last.err = "ok"
    /\ Len(history) = 1 /\ history[1].player = "player2"
    /\ Unwrap(global_wd_oldest) >= 2
    /\ Len(player_wd["player2"]) = 2
    /\ player_wd["player2"][1].timestamp = GENESIS_TIME - 1
    /\ player_wd["player2"][2] = RecordOf(history[1])

----------------------------------------------------------------------------
(* Check-effects-interactions within one Withdraw *)

(* The storage after one write of the trace; a message writes nothing. *)
apply_event(st, e) ==
    IF e.item = "USED_NONCES"
    THEN [st EXCEPT !.used_nonces = save(@, e.key, e.value)]
    ELSE IF e.item = "PLAYER_WITHDRAWALS"
    THEN [st EXCEPT !.player_wd = save(@, e.key, e.value)]
    ELSE IF e.item = "PLAYER_LAST_WITHDRAWAL"
    THEN [st EXCEPT !.player_last_wd = save(@, e.key, e.value)]
    ELSE IF e.item = "GLOBAL_WITHDRAWAL_RECORDS"
    THEN [st EXCEPT !.global_wd_map = IF e.kind = "save" THEN save(@, e.key, e.value)
                                      ELSE remove(@, e.key)]
    ELSE IF e.item = "GLOBAL_WD_COUNTER"
    THEN [st EXCEPT !.global_wd_counter = Some(e.value)]
    ELSE IF e.item = "GLOBAL_WD_OLDEST"
    THEN [st EXCEPT !.global_wd_oldest = Some(e.value)]
    ELSE st

RECURSIVE Replay(_, _)
Replay(st, events) ==
    IF events = << >> THEN st
    ELSE Replay(apply_event(st, Head(events)), Tail(events))

IsMessage(e) == e.kind = "message"

(* The position of the first bank message in the trace (beyond its end if none). *)
FirstMessage(events) ==
    IF \E i \in DOMAIN events : IsMessage(events[i])
    THEN CHOOSE i \in DOMAIN events :
             /\ IsMessage(events[i])
             /\ \A j \in 1..(i - 1) : ~IsMessage(events[j])
    ELSE Len(events) + 1

WrittenItems ==
    { "USED_NONCES", "PLAYER_WITHDRAWALS", "PLAYER_LAST_WITHDRAWAL",
      "GLOBAL_WITHDRAWAL_RECORDS", "GLOBAL_WD_COUNTER", "GLOBAL_WD_OLDEST" }

(* No write follows a bank message; a withdrawal that succeeded wrote every *)
(* item before its first message and returned the messages it built.        *)
WritesPrecedeMessages ==
    /\ \A i \in DOMAIN effects : \A j \in DOMAIN effects :
           (i < j /\ IsMessage(effects[i])) => IsMessage(effects[j])
    /\ (last.op = "withdraw" /\ last.err = "ok") =>
           /\ \A item \in WrittenItems :
                  \E i \in 1..(FirstMessage(effects) - 1) :
                      effects[i].kind = "save" /\ effects[i].item = item
           /\ last.msgs = [i \in 1..(Len(effects) - FirstMessage(effects) + 1) |->
                              effects[FirstMessage(effects) + i - 1].value]

(* The storage a successful Withdraw leaves is the one its writes produce, *)
(* so that the trace omits no write.                                        *)
WithdrawReplays ==
    (last'.op = "withdraw" /\ last'.err = "ok" /\ history' # history) =>
        /\ Replay(Store, effects') = Store'
        /\ Replay(Store, SubSeq(effects', 1, FirstMessage(effects') - 1)) = Store'

\* C37: within one Withdraw invocation every persistent write (nonce marked
\* used, the player's records and last-withdrawal time, the global record,
\* the counter, the oldest cursor) is made before any bank message is built
\* or returned, and no write follows a bank message.
ChecksEffectsInteractions == []WritesPrecedeMessages /\ [][WithdrawReplays]_vars

(* A withdrawal that removed an expired global record and paid a fee. *)
WroteRemovedThenPaid ==
    /\ last.op = "withdraw" /\ last.err = "ok"
    /\ Len(last.msgs) = 2
    /\ \E i \in DOMAIN effects : effects[i].kind = "remove"
    /\ IsMessage(effects[Len(effects)])

----------------------------------------------------------------------------
(* Re-invocation of propose, accept and cancel *)

ProposedOracles == {NEW_ORACLE, ORACLE}
ProposedKeys == {Key1, Key2, ShortKey}
ProposedOwners == {NEW_OWNER, "player1"}

(* The outcome is a failure that leaves the storage as it is; it is the *)
(* error named if the same invocation is accepted in the storage alt,   *)
(* which differs only in the pending transfer.                          *)
RejectedAs(out, alt, e) ==
    /\ out.err # "ok"
    /\ out.st = Store
    /\ alt.err = "ok" => out.err = e

OraclePendingOf(sender) ==
    [Store EXCEPT !.pending_oracle =
        Some([proposed_oracle |-> sender, proposed_pubkey |-> Key2])]

OwnerPendingOf(sender) ==
    [Store EXCEPT !.pending_owner = Some([proposed_owner |-> sender])]

OracleReinvocation ==
    \A sender \in HandoverSenders : \A funds \in HandoverFunds :
        \A info \in {Info(sender, funds)} :
            /\ IsSome(pending_oracle) =>
                 \A o \in ProposedOracles : \A k \in ProposedKeys :
                     RejectedAs(execute_propose_oracle(Store, info, o, k),
                                execute_propose_oracle(
                                    [Store EXCEPT !.pending_oracle = None], info, o, k),
                                "OracleTransferAlreadyPending")
            /\ IsNone(pending_oracle) =>
                 /\ RejectedAs(execute_accept_oracle(Store, info),
                               execute_accept_oracle(OraclePendingOf(sender), info),
                               "NoOracleTransferPending")
                 /\ RejectedAs(execute_cancel_oracle_transfer(Store, info),
                               execute_cancel_oracle_transfer(OraclePendingOf(sender), info),
                               "NoOracleTransferPending")

OwnerReinvocation ==
    \A sender \in HandoverSenders : \A funds \in HandoverFunds :
        \A info \in {Info(sender, funds)} :
            /\ IsSome(pending_owner) =>
                 \A o \in ProposedOwners :
                     RejectedAs(execute_propose_owner(Store, info, o),
                                execute_propose_owner(
                                    [Store EXCEPT !.pending_owner = None], info, o),
                                "OwnerTransferAlreadyPending")
            /\ IsNone(pending_owner) =>
                 /\ RejectedAs(execute_accept_owner(Store, info),
                               execute_accept_owner(OwnerPendingOf(sender), info),
                               "NoOwnerTransferPending")
                 /\ RejectedAs(execute_cancel_owner_transfer(Store, info),
                               execute_cancel_owner_transfer(OwnerPendingOf(sender), info),
                               "NoOwnerTransferPending")

\* C38: propose, accept and cancel of the oracle and owner handovers are safe
\* against re-invocation: a Propose while a transfer is pending fails and does
\* not overwrite the pending record, an Accept or a Cancel with nothing
\* pending fails, each leaves config and the pending state unchanged, and an
\* invocation that would be accepted were the pending state the other way
\* round fails with OracleTransferAlreadyPending / OwnerTransferAlreadyPending
\* resp. NoOracleTransferPending / NoOwnerTransferPending.
HandoverReinvocationSafe == OracleReinvocation /\ OwnerReinvocation

(* The owner proposed an oracle while the transfer proposed before was pending. *)
ProposedWhilePending ==
    /\ last.op = "propose_oracle"
    /\ last.err = "OracleTransferAlreadyPending"
    /\ IsSome(pending_oracle)
    /\ Unwrap(pending_oracle).proposed_pubkey = Key2

----------------------------------------------------------------------------
(* Signed amounts and the live rate *)

(* The net tokens for the credits under the rate and fee of instantiation. *)
NetAtGenesis(credits) ==
    LET gross == (credits * InstantiateMsg.rate_tokens) \div InstantiateMsg.rate_credits
    IN  gross - (gross * InstantiateMsg.fee_bps) \div BPS_DENOMINATOR

(* The outcome of a request whose signed amounts the live config no longer *)
(* yields: nothing is paid or written, and unless the contract is paused   *)
(* or the nonce is expired or used, the error is AmountMismatch.           *)
RejectedForAmounts(out, st, time, nonce) ==
    /\ out.err # "ok"
    /\ out.msgs = << >>
    /\ out.st = st
    /\ (/\ assert_not_paused(st) = "ok"
        /\ validate_nonce_timestamp(nonce, time) = "ok"
        /\ ~query_nonce_used(st, nonce))
       => (out.err = "AmountMismatch" /\ ~query_nonce_used(out.st, nonce))

(* In every state: a request signed at instantiation for the net of that *)
(* time is rejected once the live config yields another net.             *)
StaleAmountsRejected ==
    \A sender \in Players : \A n \in GoodNonces : \A c \in {1, 2} :
        ExpectedNet(c) # NetAtGenesis(c) =>
            RejectedForAmounts(Attempt(sender, Honest(sender, n, c, NetAtGenesis(c))),
                               Store, now, n)

(* Across an UpdateRate or UpdateFee: a request signed before the step for *)
(* the net of the config before it is rejected after it if the net changed. *)
RateChangeInvalidates ==
    (last'.err = "ok" /\ last'.op \in {"update_rate", "update_fee"} /\ config' # config) =>
    \A sender \in Players : \A n \in GoodNonces : \A c \in {1, 2} :
        \A msg \in {WithdrawMsg(n, c, ExpectedNet(c),
                        oracle_sign(config.oracle_pubkey, CHAIN_ID, CONTRACT, n, sender,
                                    c, ExpectedNet(c)))} :
            ExpectedNet(c)' # ExpectedNet(c) =>
                RejectedForAmounts(
                    execute_withdraw(Store', Env(<< >>)', Info(sender, << >>), msg),
                    Store', now', n)

\* C39: a request the oracle signed for (nonce, C, T), with T the expected net
\* of C under the config at signing time, fails with AmountMismatch, pays
\* nothing and leaves the nonce unused once the owner has applied an
\* UpdateRate or UpdateFee after which the expected net of C is no longer T.
SignedAmountsBoundToLiveRate == []StaleAmountsRejected /\ [][RateChangeInvalidates]_vars

(* The fee was set to zero; the request signed before for 2 credits and  *)
(* 3 tokens is now rejected with AmountMismatch.                         *)
SignedAmountsWentStale ==
    /\ last.op = "update_fee" /\ last.err = "ok"
    /\ config.fee_bps = 0
    /\ ExpectedNet(2) = 4
    /\ Attempt("player1", Honest("player1", NonceA, 2, 3)).err = "AmountMismatch"

----------------------------------------------------------------------------
(* Rotation of the oracle key *)

(* A request signed with key for exactly the fields sent. *)
SignedWith(key, sender, n, c, t) ==
    WithdrawMsg(n, c, t, oracle_sign(key, CHAIN_ID, CONTRACT, n, sender, c, t))

(* The outcome on storage st at time env.time of the request signed with a *)
(* key that is not the one in st.config: it is rejected and nothing is     *)
(* written or paid; if the same request signed with the key in st.config   *)
(* is accepted, the error is InvalidSignature.                             *)
RejectedForKey(st, env, sender, key, n, c, t) ==
    \A out \in {execute_withdraw(st, env, Info(sender, << >>),
                                 SignedWith(key, sender, n, c, t))} :
        /\ out.err # "ok"
        /\ out.msgs = << >>
        /\ out.st = st
        /\ execute_withdraw(st, env, Info(sender, << >>),
               SignedWith(st.config.oracle_pubkey, sender, n, c, t)).err = "ok"
           => out.err = "InvalidSignature"

(* While a transfer is only pending the key in config is the one that *)
(* authorizes; the proposed key does not.                              *)
PendingKeyNotYetValid ==
    (IsSome(pending_oracle)
        /\ Unwrap(pending_oracle).proposed_pubkey # config.oracle_pubkey) =>
    \A sender \in Players : \A n \in GoodNonces : \A a \in Amounts :
        RejectedForKey(Store, Env(<< >>), sender,
                       Unwrap(pending_oracle).proposed_pubkey, n, a[1], a[2])

(* While a transfer is pending and after one was accepted, every accepted *)
(* request carries a signature of the key in config.                      *)
OnlyCurrentKeyAccepted ==
    (IsSome(pending_oracle) \/ config.oracle # InstantiateMsg.oracle) =>
    \A sender \in Players : \A msg \in Requests[sender] :
        Attempt(sender, msg).err = "ok" =>
            msg.signature.signer = config.oracle_pubkey.id

(* Across AcceptOracle: the key that authorized before the step is rejected  *)
(* after it, and a request signed with the new key fares after the step as  *)
(* the same request signed with the previous key fared before it.           *)
RotationAtAcceptance ==
    (last'.op = "accept_oracle" /\ last'.err = "ok" /\ IsSome(pending_oracle)) =>
    /\ config'.oracle_pubkey = Unwrap(pending_oracle).proposed_pubkey
    /\ config'.oracle_pubkey # config.oracle_pubkey
    /\ \A sender \in Players : \A n \in GoodNonces : \A a \in Amounts :
         /\ RejectedForKey(Store', Env(<< >>)', sender, config.oracle_pubkey,
                           n, a[1], a[2])
         /\ execute_withdraw(Store', Env(<< >>)', Info(sender, << >>),
                SignedWith(config'.oracle_pubkey, sender, n, a[1], a[2])).err
            = Attempt(sender, SignedWith(config.oracle_pubkey, sender, n, a[1], a[2])).err

\* C40: the rotation of the oracle key takes effect exactly at acceptance:
\* while a proposed oracle is only pending, withdrawals are authorized by
\* signatures of the key in config alone and signatures of the proposed key
\* are rejected; after AcceptOracle a withdrawal signed with the previous key
\* is rejected (with InvalidSignature if it is otherwise valid) and changes
\* no state, and only signatures of the new key are accepted.
KeyRotatesAtAcceptance ==
    [](PendingKeyNotYetValid /\ OnlyCurrentKeyAccepted) /\ [][RotationAtAcceptance]_vars

(* After the handover a withdrawal was rejected for its signature: it was *)
(* signed with the previous key.                                          *)
PreviousKeyRejected ==
    /\ last.op = "withdraw"
    /\ last.err = "InvalidSignature"
    /\ config.oracle = NEW_ORACLE
    /\ config.oracle_pubkey = Key2
    /\ RejectedForKey(Store, Env(<< >>), "player1", Key1, NonceA, 1, 2)
    /\ Attempt("player1", Honest("player1", NonceA, 1, 2)).err = "InvalidSignature"

=============================================================================
